---- MODULE Spec2Model ----
(***************************************************************************)
(* mctui: the download manager (package download) and the launch pipeline  *)
(* (package launch), modelled as state machines.                           *)
(*                                                                         *)
(* SpecDownload runs one Manager.Download call on a batch drawn from a     *)
(* bounded set of items, worker counts and initial file systems.           *)
(* Spec runs one Launcher.Launch call, with the Download calls it makes,   *)
(* the child process, the log readers and the consumer of the status       *)
(* channel.                                                                *)
(***************************************************************************)
EXTENDS Integers, Sequences, FiniteSets, TLC

VARIABLES
    ctxDone,          \* the context passed to Launch / Download is cancelled
    fs,               \* path -> file content, or NoFile
    fs0,              \* the file system when Download was called (ghost)
    items,            \* the batch handed to Download
    workerCount,      \* Manager.workerCount
    dlpc,             \* position of the Download call
    result,           \* the Result returned by Download, or NoResult
    workChan,         \* the pre-filled, closed work queue (item indices)
    wk,               \* per worker: position, item, bytes hashed, body left
    completed,        \* Download's completed counter
    failed,           \* Download's failed counter
    errors,           \* Download's errors slice
    downloadedBytes,  \* Manager.downloadedBytes
    attempts,         \* item index -> number of downloadItem calls (ghost)
    requests,         \* item index -> number of HTTP GETs issued (ghost)
    mismatch,         \* item indices whose received hash differed (ghost)
    hasSink,          \* Download was given a progress channel
    progressChan,     \* the progress channel of performDownload
    progressClosed,   \* performDownload has closed the progress channel
    rpc,              \* the progress reporter goroutine of Download
    fpc,              \* the forwarding goroutine of performDownload
    ticks,            \* ticker firings and progress callbacks so far (bounded)
    lpc,              \* position of the Launch call
    step,             \* index of the loop over the steps, 1..5 (6: past it)
    inst,             \* opts.Instance: the cached-state fields and JavaPath
    inst0,            \* the instance when Launch was called (ghost)
    opts,             \* the fixed part of Options
    javaPath,         \* opts.JavaPath
    statusChan,       \* the buffered status channel (when opts.hasChan)
    chanLog,          \* what the status channel accepted and dropped (ghost)
    stepLog,          \* names of the steps started, in order (ghost)
    stepRes,          \* error of each step that returned, "" for nil (ghost)
    retval,           \* what Launch returned, or NoResult
    calls,            \* invocations of the callbacks and of the manager, and what
                      \* the manager reported to the two download steps (ghost)
    proc,             \* the child process
    pipes,            \* the child's stdout and stderr pipes: unread lines, lines
                      \* written so far, read end closed
    rd,               \* the two streamLog goroutines
    call,             \* a function called on its own: its name and arguments
    ret,              \* what that call returned, or NoCall
    Accounts,         \* AccountManager.Accounts: the stored account ids
    ActiveID,         \* AccountManager.ActiveID
    launchStatusChan, \* the application's Model.launchStatusChan: "nil" or "chan"
    appChan,          \* the channel made by startLaunch: buffer and closes
    launchCtxDone,    \* the context made by startLaunch is cancelled
    gpc,              \* the goroutine of startLaunch that runs Launch
    cpc,              \* the outstanding waitForLaunchStatus command
    sent              \* statuses Launch has offered so far (bounded)

envvars == <<ctxDone, fs, fs0>>
callvars == <<items, workerCount, dlpc, result>>
workvars == <<workChan, wk, completed, failed, errors, downloadedBytes>>
ghostvars == <<attempts, requests, mismatch>>
progvars == <<hasSink, progressChan, progressClosed, rpc, fpc, ticks>>
dlvars == <<envvars, callvars, workvars, ghostvars>>
chanvars == <<statusChan, chanLog>>
loopvars == <<lpc, step, stepLog, stepRes, retval>>
instvars == <<inst, inst0, opts, javaPath>>
procvars == <<proc, pipes, rd>>
launchvars == <<chanvars, loopvars, instvars, calls, procvars>>

appvars == <<launchStatusChan, appChan, launchCtxDone, gpc, cpc, sent>>
unitvars == <<call, ret, Accounts, ActiveID, appvars>>

vars == <<dlvars, progvars, launchvars, unitvars>>

\* No function is called on its own and there is no account manager.
NoCall == [none |-> TRUE]

\* The application has started no launch.
NoApp ==
    /\ launchStatusChan = "nil"
    /\ appChan = [buf |-> <<>>, closes |-> 0]
    /\ launchCtxDone = FALSE
    /\ gpc = "off"
    /\ cpc = "none"
    /\ sent = 0

NoUnit ==
    /\ call = NoCall
    /\ ret = NoCall
    /\ Accounts = <<>>
    /\ ActiveID = ""
    /\ NoApp

----------------------------------------------------------------------------
(* Bounds of the model.                                                    *)

MaxItems == 2       \* items in a batch handed to Download directly
MaxWorkers == 2     \* worker counts tried for NewManager (0 = default)
MaxLibs == 1        \* libraries declared by the version metadata
MaxAssets == 1      \* objects listed by the asset index
ChanCap == 1        \* capacity of the status channel given to NewLauncher
MaxTicks == 1       \* ticker firings of the progress reporter in a run
MaxLines == 1       \* lines the child process writes in a run

(* Data.                                                                   *)

\* The absence of a file; no content holds the byte -1.
NoFile == <<-1>>
NoResult == [none |-> TRUE]
NoSHA == ""

\* The artifact a URL is meant to serve, and what a server sends when it
\* serves less: Truncated is a proper prefix of Genuine.
Genuine == <<1, 2>>
Truncated == <<1>>

\* Response bodies a server can send.
Bodies == {Truncated, Genuine}

RECURSIVE digest(_, _)
digest(h, s) ==
    IF s = <<>> THEN h
    ELSE digest((h * 31 + Head(s)) % 65536, Tail(s))

\* hex.EncodeToString(sha1.Sum(content)): the digest rendered as a string.
sha1Hex(content) == ToString(digest(7, content))

\* The objects a well-formed asset index lists, and what each one's URL
\* serves.
assetBody(k) == <<k, 2>>
assetHash(k) == sha1Hex(assetBody(k))
IndexObjects == [k \in 1..MaxAssets |-> [Hash |-> assetHash(k), Size |-> Len(assetBody(k))]]

assetURL(hash) ==
    "https://resources.download.minecraft.net/" \o SubSeq(hash, 1, 2) \o "/" \o hash

\* What the server behind url serves when it answers in full.
Served(url) ==
    IF \E k \in 1..MaxAssets : url = assetURL(assetHash(k))
    THEN assetBody(CHOOSE k \in 1..MaxAssets : url = assetURL(assetHash(k)))
    ELSE Genuine

\* os.Stat / os.Open succeed on path.
exists(path) == path \in DOMAIN fs /\ fs[path] # NoFile

\* hashFile(path): the hash, or an error when the file cannot be opened.
hashFile(path) ==
    IF ~exists(path) THEN [err |-> TRUE, hash |-> NoSHA]
    ELSE [err |-> FALSE, hash |-> sha1Hex(fs[path])]

\* filepath.Join(a, b)
Join(a, b) == a \o "/" \o b

\* item.Path + ".tmp"
tmpPath(path) == path \o ".tmp"

DefaultWorkerCount == 4

\* NewManager(workerCount): a non-positive count becomes the default.
NewManager(n) == IF n <= 0 THEN DefaultWorkerCount ELSE n

Idle == [pc |-> "idle", item |-> 0, got |-> <<>>, rest |-> <<>>]
Exited == [pc |-> "exited", item |-> 0, got |-> <<>>, rest |-> <<>>]

Workers == 1..workerCount

\* An item declares no hash, or the hash of the genuine artifact.
SHAs == {NoSHA, sha1Hex(Genuine)}

testURL(i) == "http://server/" \o ToString(i)
testPath(i) == Join("tmp", ToString(i) \o ".txt")

\* Batches with pairwise distinct destinations (the manager's precondition).
ItemsOver(n) ==
    {it \in [1..n -> [URL : {testURL(i) : i \in 1..n}, Path : {testPath(i) : i \in 1..n},
                      SHA1 : SHAs, Size : {Len(Genuine)}]] :
        \A i \in 1..n : it[i].URL = testURL(i) /\ it[i].Path = testPath(i)}

Batches == UNION {ItemsOver(n) : n \in 0..MaxItems}

\* The file systems a batch can start on: nothing under a temporary name,
\* and a file at a destination only where a hash is declared.
FileSystems(its) ==
    LET dests == {its[i].Path : i \in 1..Len(its)}
        declared == {its[i].Path : i \in {j \in 1..Len(its) : its[j].SHA1 # NoSHA}}
    IN UNION {[there -> Bodies] : there \in SUBSET declared}

----------------------------------------------------------------------------
(* Manager.Download                                                        *)

\* os.Create / a write / os.Remove / os.Rename on the file system f: a
\* removed file leaves no entry.
setFile(f, path, content) ==
    [q \in (DOMAIN f \cup {path}) \ (IF content = NoFile THEN {path} ELSE {}) |->
        IF q = path THEN content ELSE f[q]]

fileAt(f, path) == IF path \in DOMAIN f THEN f[path] ELSE NoFile

\* A write of one byte at offset off of an open file: a file unlinked
\* meanwhile is no longer visible under its name.
writeAt(content, off, byte) ==
    IF content = NoFile THEN NoFile
    ELSE IF Len(content) > off THEN [content EXCEPT ![off + 1] = byte]
    ELSE IF Len(content) = off THEN Append(content, byte)
    ELSE content \o [i \in 1..(off - Len(content)) |-> 0] \o <<byte>>

\* Download, lines 968-1048: the empty batch returns at once; otherwise the
\* queue is filled and closed, the progress reporter is started when a
\* progress channel was given, and the workers are started.
DownloadStart ==
    /\ dlpc = "call"
    /\ IF Len(items) = 0
       THEN /\ dlpc' = "returned"
            /\ result' = [Completed |-> 0, Failed |-> 0, Errors |-> <<>>, err |-> FALSE]
            /\ UNCHANGED <<workvars, rpc>>
       ELSE /\ dlpc' = "running"
            /\ workChan' = [i \in 1..Len(items) |-> i]
            /\ wk' = [w \in Workers |-> Idle]
            /\ completed' = 0
            /\ failed' = 0
            /\ errors' = <<>>
            /\ downloadedBytes' = 0
            /\ rpc' = IF hasSink THEN "run" ELSE "off"
            /\ UNCHANGED result
    /\ attempts' = [i \in 1..Len(items) |-> 0]
    /\ requests' = [i \in 1..Len(items) |-> 0]
    /\ mismatch' = {}
    /\ UNCHANGED <<envvars, items, workerCount, launchvars>>
    /\ UNCHANGED <<hasSink, progressChan, progressClosed, fpc, ticks>>
    /\ UNCHANGED unitvars

\* Mutant: a failure is counted but its error is not kept.
itemFailedUnrecorded(w, cause) ==
    /\ failed' = failed + 1
    /\ wk' = [wk EXCEPT ![w] = Idle]
    /\ UNCHANGED <<completed, errors>>

\* A worker's item failed with the error `cause`: failed++, and errors gains
\* an entry that refers to the item's URL (the wrapped text is not kept).
itemFailed(w, cause) ==
    /\ failed' = failed + 1
    /\ errors' = Append(errors, [URL |-> items[wk[w].item].URL])
    /\ wk' = [wk EXCEPT ![w] = Idle]
    /\ UNCHANGED completed

\* A worker's item succeeded: completed++.
itemCompleted(w) ==
    /\ completed' = completed + 1
    /\ wk' = [wk EXCEPT ![w] = Idle]
    /\ UNCHANGED <<failed, errors>>

\* Workers are interchangeable: the idle worker with the lowest number is the
\* one that receives next.
nextIdle(w) ==
    /\ wk[w].pc = "idle"
    /\ \A v \in Workers : v < w => wk[v].pc # "idle"

\* Mutant: the worker does not look at the context between two items.
workerSeesCancelNever == FALSE

\* The worker's cancellation check before an item, lines 1057-1061.
workerSeesCancel == ctxDone

\* Worker loop, lines 1056-1065: receive an item, check for cancellation,
\* enter downloadItem.
WorkerTake(w) ==
    /\ dlpc = "running"
    /\ nextIdle(w)
    /\ workChan # <<>>
    /\ workChan' = Tail(workChan)
    /\ IF workerSeesCancel
       THEN /\ wk' = [wk EXCEPT ![w] = Exited]
            /\ UNCHANGED attempts
       ELSE /\ wk' = [wk EXCEPT ![w] = [pc |-> "check", item |-> Head(workChan),
                                        got |-> <<>>, rest |-> <<>>]]
            /\ attempts' = [attempts EXCEPT ![Head(workChan)] = @ + 1]
    /\ UNCHANGED <<envvars, callvars, completed, failed, errors, downloadedBytes,
                   requests, mismatch>>
    /\ UNCHANGED <<progvars, launchvars>>
    /\ UNCHANGED unitvars

\* Mutant: the existing file is never recognised.
alreadyDownloadedNever(it) == FALSE

\* downloadItem, lines 1093-1098: the destination already holds the declared
\* hash.
alreadyDownloaded(it) ==
    /\ it.SHA1 # NoSHA
    /\ ~hashFile(it.Path).err
    /\ hashFile(it.Path).hash = it.SHA1

\* downloadItem, lines 1092-1103: skip when the destination already has the
\* declared hash; otherwise create the parent directory (which can fail).
CheckExisting(w) ==
    /\ dlpc = "running"
    /\ wk[w].pc = "check"
    /\ LET it == items[wk[w].item]
       IN IF alreadyDownloaded(it)
          THEN /\ downloadedBytes' = downloadedBytes + it.Size
               /\ itemCompleted(w)
          ELSE /\ UNCHANGED downloadedBytes
               /\ \/ /\ wk' = [wk EXCEPT ![w].pc = "request"]
                     /\ UNCHANGED <<completed, failed, errors>>
                  \/ itemFailed(w, "creating directory")
    /\ UNCHANGED <<envvars, callvars, workChan, ghostvars>>
    /\ UNCHANGED <<progvars, launchvars>>
    /\ UNCHANGED unitvars

\* downloadItem, lines 1106-1127: build and execute the GET (retries are
\* inside the client; a cancelled context makes it fail), require status
\* 200, create the temporary file.
DoRequest(w) ==
    /\ dlpc = "running"
    /\ wk[w].pc = "request"
    /\ LET it == items[wk[w].item]
       IN \/ /\ itemFailed(w, "creating request")
             /\ UNCHANGED <<fs, requests>>
          \/ /\ requests' = [requests EXCEPT ![wk[w].item] = @ + 1]
             /\ \/ /\ itemFailed(w, "downloading")
                   /\ UNCHANGED fs
                \/ /\ ~ctxDone
                   /\ itemFailed(w, "unexpected status")
                   /\ UNCHANGED fs
                \/ /\ ~ctxDone
                   /\ itemFailed(w, "creating file")
                   /\ UNCHANGED fs
                \/ /\ ~ctxDone
                   /\ \E body \in {Served(it.URL), Truncated} :
                        wk' = [wk EXCEPT ![w].pc = "stream", ![w].rest = body]
                   /\ fs' = setFile(fs, tmpPath(it.Path), <<>>)
                   /\ UNCHANGED <<completed, failed, errors>>
    /\ UNCHANGED <<ctxDone, fs0, callvars, workChan, downloadedBytes, attempts, mismatch>>
    /\ UNCHANGED <<progvars, launchvars>>
    /\ UNCHANGED unitvars

\* Mutant: a failed item's temporary file is left behind.
removeTmpForgotten(f, t) == f

\* os.Remove(tmpPath) on the error paths of downloadItem, lines 1139, 1149,
\* 1155, 1163 and 1170.
removeTmp(f, t) == setFile(f, t, NoFile)

\* downloadItem, lines 1134-1152, one iteration of the copy loop: a chunk is
\* written to the temporary file and hashed, or the write or the read fails
\* (a cancelled context surfaces as a read error) and the temporary file is
\* removed.
ReadChunk(w) ==
    /\ dlpc = "running"
    /\ wk[w].pc = "stream"
    /\ wk[w].rest # <<>>
    /\ LET it == items[wk[w].item]
           t == tmpPath(it.Path)
       IN \/ /\ ~ctxDone
             /\ fs' = setFile(fs, t, writeAt(fileAt(fs, t), Len(wk[w].got), Head(wk[w].rest)))
             /\ wk' = [wk EXCEPT ![w].got = Append(@, Head(wk[w].rest)),
                                 ![w].rest = Tail(@)]
             /\ downloadedBytes' = downloadedBytes + 1
             /\ UNCHANGED <<completed, failed, errors>>
          \/ /\ fs' = removeTmp(fs, t)
             /\ \/ itemFailed(w, "writing file")
                \/ itemFailed(w, "reading response")
             /\ UNCHANGED downloadedBytes
    /\ UNCHANGED <<ctxDone, fs0, callvars, workChan, ghostvars>>
    /\ UNCHANGED <<progvars, launchvars>>
    /\ UNCHANGED unitvars

\* Mutant: the temporary file is renamed without verifying its hash.
verifyAndRenameUnchecked(w) ==
    LET it == items[wk[w].item]
        t == tmpPath(it.Path)
    IN /\ UNCHANGED mismatch
       /\ fileAt(fs, t) # NoFile
       /\ fs' = setFile(setFile(fs, it.Path, fileAt(fs, t)), t, NoFile)
       /\ itemCompleted(w)

\* downloadItem, lines 1159-1174: verify the hash when one is declared, then
\* rename the temporary file onto the destination; every failure removes the
\* temporary file.
verifyAndRename(w) ==
    LET it == items[wk[w].item]
        t == tmpPath(it.Path)
        hash == sha1Hex(wk[w].got)
    IN IF it.SHA1 # NoSHA /\ hash # it.SHA1
       THEN /\ fs' = removeTmp(fs, t)
            /\ mismatch' = mismatch \cup {wk[w].item}
            /\ itemFailed(w, "hash mismatch")
       ELSE /\ UNCHANGED mismatch
            /\ \/ /\ fs' = removeTmp(fs, t)
                  /\ itemFailed(w, "renaming file")
               \/ /\ fileAt(fs, t) # NoFile
                  /\ fs' = setFile(setFile(fs, it.Path, fileAt(fs, t)), t, NoFile)
                  /\ itemCompleted(w)

\* downloadItem, lines 1144-1174: the copy loop reads io.EOF, the temporary
\* file is closed (which can fail), verified and renamed.
FinishItem(w) ==
    /\ dlpc = "running"
    /\ wk[w].pc = "stream"
    /\ wk[w].rest = <<>>
    /\ \/ /\ fs' = removeTmp(fs, tmpPath(items[wk[w].item].Path))
          /\ itemFailed(w, "closing file")
          /\ UNCHANGED mismatch
       \/ verifyAndRename(w)
    /\ UNCHANGED <<ctxDone, fs0, callvars, workChan, downloadedBytes, attempts, requests>>
    /\ UNCHANGED <<progvars, launchvars>>
    /\ UNCHANGED unitvars

\* Mutant: a worker counts as finished as soon as it is between two items.
workerDoneEarly(w) == wk[w].pc \in {"exited", "idle"}

\* A worker has left its loop: it saw the cancellation, or it is idle and
\* the closed queue is empty.
workerDone(w) ==
    \/ wk[w].pc = "exited"
    \/ wk[w].pc = "idle" /\ workChan = <<>>

\* Mutant: Download does not wait for the reporter before it returns.
reporterLeftRunning(r) == r

\* Download, lines 1080-1081: close(doneSignal) makes the reporter return
\* and <-progressDone waits until it has; r is the reporter's position.
reporterJoined(r) == IF hasSink THEN "done" ELSE r

\* Download, lines 1079-1087: wg.Wait, close(doneSignal), wait for the
\* reporter to terminate, then the Result; the error is nil.
DownloadReturn ==
    /\ dlpc = "running"
    /\ \A w \in Workers : workerDone(w)
    /\ rpc # "blocked"
    /\ dlpc' = "returned"
    /\ rpc' = reporterJoined(rpc)
    /\ result' = [Completed |-> completed, Failed |-> failed, Errors |-> errors,
                  err |-> FALSE]
    /\ UNCHANGED <<envvars, items, workerCount, workvars, ghostvars, launchvars>>
    /\ UNCHANGED <<hasSink, progressChan, progressClosed, fpc, ticks>>
    /\ UNCHANGED unitvars

\* The run under study is over: Launch has returned (or panicked), or, for
\* a Download called on its own, Download has returned.
runOver ==
    IF lpc = "none" THEN dlpc = "returned" ELSE lpc \in {"returned", "panicked"}

\* The caller cancels the context.
Cancel ==
    /\ ~ctxDone
    /\ ~runOver
    /\ ctxDone' = TRUE
    /\ UNCHANGED <<fs, fs0, callvars, workvars, ghostvars, progvars, launchvars>>
    /\ UNCHANGED unitvars

----------------------------------------------------------------------------
(* One Download call on an arbitrary batch.                                *)

\* The Launch variables while no Launch runs.
NoLaunch ==
    /\ lpc = "none"
    /\ step = 0
    /\ inst = [IsFullyDownloaded |-> FALSE, CachedAt |-> 0, JavaPath |-> ""]
    /\ inst0 = inst
    /\ opts = [none |-> TRUE]
    /\ javaPath = ""
    /\ statusChan = <<>>
    /\ chanLog = [terminals |-> 0, late |-> FALSE, lost |-> FALSE, complete |-> FALSE]
    /\ stepLog = <<>>
    /\ stepRes = <<>>
    /\ retval = NoResult
    /\ calls = [UpdateInstance |-> 0, UpdateLastPlayed |-> 0, Download |-> 0,
                built |-> 0, indexReads |-> 0, finalErr |-> FALSE,
                libsFailed |-> 0, indexFetch |-> "none"]
    /\ proc = "none"
    /\ pipes = [s \in {"stdout", "stderr"} |-> [buf |-> <<>>, written |-> 0, closed |-> FALSE]]
    /\ rd = [s \in {"stdout", "stderr"} |-> [pc |-> "off", line |-> ""]]

\* The steps that call performDownload; each call has its own progress
\* channel and forwarding goroutine.
DownloadSteps == {"Downloading libraries", "Downloading assets"}

NoProgress ==
    /\ hasSink = FALSE
    /\ progressChan = [n \in DownloadSteps |-> <<>>]
    /\ progressClosed = [n \in DownloadSteps |-> FALSE]
    /\ rpc = "off"
    /\ fpc = [n \in DownloadSteps |-> "off"]
    /\ ticks = 0

InitDownload ==
    /\ ctxDone = FALSE
    /\ items \in Batches
    /\ fs \in FileSystems(items)
    /\ fs0 = fs
    /\ dlpc = "call"
    /\ result = NoResult
    /\ workChan = <<>>
    /\ \E n \in 0..MaxWorkers : workerCount = NewManager(n)
    /\ wk = [w \in Workers |-> Idle]
    /\ completed = 0
    /\ failed = 0
    /\ errors = <<>>
    /\ downloadedBytes = 0
    /\ attempts = <<>>
    /\ requests = <<>>
    /\ mismatch = {}
    /\ NoProgress
    /\ NoLaunch
    /\ NoUnit

NextDownload ==
    \/ DownloadStart
    \/ \E w \in Workers : WorkerTake(w)
    \/ \E w \in Workers : CheckExisting(w)
    \/ \E w \in Workers : DoRequest(w)
    \/ \E w \in Workers : ReadChunk(w)
    \/ \E w \in Workers : FinishItem(w)
    \/ DownloadReturn
    \/ Cancel

SpecDownload == InitDownload /\ [][NextDownload]_vars

----------------------------------------------------------------------------
(* Package launch: data.                                                   *)

NoErr == ""

\* The steps of Launch, lines 295-299.
StepNames == <<"Checking Java", "Downloading libraries", "Downloading assets",
               "Preparing game", "Launching">>

\* The position inside each step's function.
StepPcs == <<"checkJava", "downloadLibraries", "downloadAssets", "prepareGame",
             "launchGame">>

\* A Status value; Progress is a fraction <<numerator, denominator>>.
Status(stepName, progress) ==
    [Step |-> stepName, Progress |-> progress, IsComplete |-> FALSE,
     Error |-> NoErr, LogLine |-> ""]

isTerminal(s) == s.IsComplete \/ s.Error # NoErr

\* sendStatus, lines 336-343: a non-blocking send, dropped when the channel
\* is nil or full.
sendStatus(ch, s) ==
    IF opts.hasChan /\ Len(ch) < ChanCap THEN Append(ch, s) ELSE ch

\* What the channel has accepted so far (ghost): the number of terminal
\* values, whether a value followed a terminal one, whether a terminal value
\* was dropped; and whether sendStatus was called with a Complete status.
noteSend(log, ch, s) ==
    IF opts.hasChan /\ Len(ch) < ChanCap
    THEN [terminals |-> log.terminals + (IF isTerminal(s) THEN 1 ELSE 0),
          late |-> log.late \/ log.terminals > 0,
          lost |-> log.lost,
          complete |-> log.complete \/ s.IsComplete]
    ELSE [log EXCEPT !.lost = @ \/ isTerminal(s), !.complete = @ \/ s.IsComplete]

\* Mutant: a send that waits for room in the channel.
sendWaiting(s) ==
    /\ opts.hasChan
    /\ Len(statusChan) < ChanCap
    /\ statusChan' = Append(statusChan, s)
    /\ chanLog' = noteSend(chanLog, statusChan, s)

send(s) ==
    /\ statusChan' = sendStatus(statusChan, s)
    /\ chanLog' = noteSend(chanLog, statusChan, s)

\* time.Now() at line 322: later than every stored time stamp.
Now == 2

LibrariesDir == "libraries"
AssetsDir == "assets"
GOOS == "linux"

\* The osMap of libraryApplies, lines 772-779.
osMapped(goos) ==
    IF goos = "darwin" THEN "osx" ELSE goos

\* Mutant: a rule's OS constraint is not looked at.
RECURSIVE rulesAllowAnyOS(_, _, _)
rulesAllowAnyOS(rules, goos, allowed) ==
    IF rules = <<>> THEN allowed
    ELSE rulesAllowAnyOS(Tail(rules), goos, Head(rules).Action = "allow")

\* libraryApplies, lines 759-792: no rules allow; otherwise the last rule
\* that matches the platform decides.
RECURSIVE rulesAllow(_, _, _)
rulesAllow(rules, goos, allowed) ==
    IF rules = <<>> THEN allowed
    ELSE LET rule == Head(rules)
             applies == ~(rule.OS.present /\ rule.OS.Name # ""
                          /\ rule.OS.Name # osMapped(goos))
         IN rulesAllow(Tail(rules), goos,
                       IF applies THEN rule.Action = "allow" ELSE allowed)

libraryApplies(rules, goos) ==
    IF Len(rules) = 0 THEN TRUE ELSE rulesAllow(rules, goos, FALSE)

NoOS == [present |-> FALSE, Name |-> ""]

\* The version metadata tried: libraries with an artifact, some of them
\* disallowed by a rule, a client binary and an asset index.
plainLib(k) ==
    [Rules |-> <<>>,
     Artifact |-> [has |-> TRUE, Path |-> "lib" \o ToString(k) \o ".jar",
                   URL |-> "http://libs/" \o ToString(k),
                   SHA1 |-> sha1Hex(Genuine), Size |-> Len(Genuine)]]

disallowedLib(k) ==
    [plainLib(k) EXCEPT !.Rules = <<[Action |-> "disallow", OS |-> NoOS]>>]

\* The library lists tried: each library plain or disallowed by a rule.
LibLists ==
    {l \in [1..MaxLibs -> {plainLib(k) : k \in 1..MaxLibs} \cup
                          {disallowedLib(k) : k \in 1..MaxLibs}] :
        \A k \in 1..MaxLibs : l[k].Artifact.Path = plainLib(k).Artifact.Path}

NoVersion == [nil |-> TRUE]

Version(libs) ==
    [nil |-> FALSE, ID |-> "1.21.4", JavaMajor |-> 17, Libraries |-> libs,
     Client |-> [has |-> TRUE, Path |-> "", URL |-> "http://libs/client",
                 SHA1 |-> sha1Hex(Genuine), Size |-> Len(Genuine)],
     AssetIndex |-> [ID |-> "19", URL |-> "http://meta/19.json", SHA1 |-> NoSHA,
                     Size |-> Len(Genuine), Objects |-> IndexObjects]]

\* A library whose metadata declares no size for its artifact.
unsizedLib(k) ==
    [plainLib(k) EXCEPT !.Artifact.Size = 0]

UnsizedVersion == Version([k \in 1..MaxLibs |-> unsizedLib(k)])

Versions == {NoVersion, UnsizedVersion} \cup {Version(l) : l \in LibLists}

\* json.Unmarshal of the index file: only the genuine file parses, to the
\* objects that the document behind the version's index URL lists (Objects
\* is that document's content, not a field of the Go reference).
parseIndex(content, v) ==
    IF content = Genuine THEN [err |-> FALSE, objects |-> v.AssetIndex.Objects]
    ELSE [err |-> TRUE, objects |-> <<>>]

clientPath(v) ==
    Join(LibrariesDir, "com/mojang/minecraft/" \o v.ID \o "/minecraft-" \o v.ID \o "-client.jar")

indexPath(v) == Join(AssetsDir, "indexes/" \o v.AssetIndex.ID \o ".json")

\* downloadLibraries, lines 429-463: the items of the rule-permitted
\* libraries that have an artifact, then the client binary when declared.
RECURSIVE libItems(_)
libItems(libs) ==
    IF libs = <<>> THEN <<>>
    ELSE LET lib == Head(libs)
         IN IF ~libraryApplies(lib.Rules, GOOS) \/ ~lib.Artifact.has
            THEN libItems(Tail(libs))
            ELSE <<[URL |-> lib.Artifact.URL,
                    Path |-> Join(LibrariesDir, lib.Artifact.Path),
                    SHA1 |-> lib.Artifact.SHA1,
                    Size |-> lib.Artifact.Size]>> \o libItems(Tail(libs))

libraryItems(v) ==
    libItems(v.Libraries) \o
    (IF v.Client.has
     THEN <<[URL |-> v.Client.URL, Path |-> clientPath(v), SHA1 |-> v.Client.SHA1,
             Size |-> v.Client.Size]>>
     ELSE <<>>)

\* downloadAssets, lines 519-530: one item per object, sharded by the first
\* two characters of its hash.
assetItem(obj) ==
    [URL |-> assetURL(obj.Hash),
     Path |-> Join(AssetsDir, "objects/" \o SubSeq(obj.Hash, 1, 2) \o "/" \o obj.Hash),
     SHA1 |-> obj.Hash,
     Size |-> obj.Size]

\* The orders in which a Go map of n entries can be iterated.
Orders(n) == {f \in [1..n -> 1..n] : \A i, j \in 1..n : f[i] = f[j] => i = j}

LibWorkers == 4
AssetWorkers == 8
IndexWorkers == 1
ProgressCap == 10
DefaultJavaMajor == 8

\* strings.Contains(s, sub)
Contains(s, sub) ==
    \E i \in 1..(Len(s) - Len(sub) + 1) : SubSeq(s, i, i + Len(sub) - 1) = sub

\* streamLog, lines 605-610: which lines are forwarded.
isImportant(text, apiType) ==
    \/ apiType = "stderr"
    \/ Contains(text, "[FATAL]")
    \/ Contains(text, "[ERROR]")
    \/ Contains(text, "[WARN]")
    \/ Contains(text, "Exception")
    \/ Contains(text, "Error")

\* Lines a child process writes.
Lines == {"[ERROR] crash", "Loading world"}
Streams == {"stdout", "stderr"}

----------------------------------------------------------------------------
(* Download's progress reporter and performDownload's forwarder.           *)

\* Download, lines 974-977: the total size of the batch.
RECURSIVE sumSizes(_)
sumSizes(its) == IF its = <<>> THEN 0 ELSE Head(its).Size + sumSizes(Tail(its))

\* The progress channel of a Download that is called on its own, and the
\* number of values it holds when full.
CallerSink == "caller"
CallerSinkCap == 1

\* The channel the running Download reports to: performDownload's channel
\* for the step, or the caller's.
currentSink == IF lpc = "none" THEN CallerSink ELSE StepNames[step]

sinkCap(n) == IF n = CallerSink THEN CallerSinkCap ELSE ProgressCap

\* Mutant: the reporter waits for room in the channel.
afterOfferWaiting(ch, cap) == IF Len(ch) < cap THEN "run" ELSE "blocked"

\* Reporter goroutine, lines 1038-1041: the select with a default branch
\* leaves the reporter in its loop whether or not the value was taken.
afterOffer(ch, cap) == "run"

\* Reporter goroutine, lines 1022-1042: on a tick, a snapshot of the
\* counters is offered to the progress channel without blocking.
ReporterTick ==
    /\ rpc = "run"
    /\ ticks < MaxTicks
    /\ ticks' = ticks + 1
    /\ LET n == currentSink
           p == [TotalBytes |-> sumSizes(items), TotalItems |-> Len(items),
                 DownloadedBytes |-> downloadedBytes, CompletedItems |-> completed]
       IN /\ progressChan' =
               IF Len(progressChan[n]) < sinkCap(n)
               THEN [progressChan EXCEPT ![n] = Append(@, p)]
               ELSE progressChan
          /\ rpc' = afterOffer(progressChan[n], sinkCap(n))
    /\ UNCHANGED <<dlvars, hasSink, progressClosed, fpc, launchvars>>
    /\ UNCHANGED unitvars

\* Reporter goroutine, lines 1018-1019: the context is done.
ReporterStop ==
    /\ dlpc = "running"
    /\ rpc = "run"
    /\ ctxDone
    /\ rpc' = "done"
    /\ UNCHANGED <<dlvars, hasSink, progressChan, progressClosed, fpc, ticks, launchvars>>
    /\ UNCHANGED unitvars

\* performDownload, lines 804-809: the fraction shown for a snapshot.
percent(p) ==
    IF p.TotalBytes > 0 THEN <<p.DownloadedBytes, p.TotalBytes>>
    ELSE IF p.TotalItems > 0 THEN <<p.CompletedItems, p.TotalItems>>
    ELSE <<0, 1>>

\* Forwarding goroutine, lines 802-816: each snapshot becomes a Status; the
\* goroutine is through once the channel is closed and drained.
ForwardProgress(n) ==
    /\ fpc[n] = "run"
    /\ progressChan[n] # <<>>
    /\ progressChan' = [progressChan EXCEPT ![n] = Tail(@)]
    /\ send(Status(n, percent(Head(progressChan[n]))))
    /\ UNCHANGED <<dlvars, hasSink, progressClosed, rpc, fpc, ticks>>
    /\ UNCHANGED <<loopvars, instvars, calls, procvars>>
    /\ UNCHANGED unitvars

----------------------------------------------------------------------------
(* Launcher.Launch                                                         *)

\* Launch, lines 309-316, a step returned nil: on to the next step.
stepOk ==
    /\ lpc' = "loop"
    /\ step' = step + 1
    /\ stepRes' = Append(stepRes, NoErr)
    /\ UNCHANGED <<stepLog, retval>>

\* Mutant: Launch goes on to the next step after a failed one.
stepFailContinue(e) ==
    /\ send([Status(StepNames[step], <<0, 1>>) EXCEPT !.Error = e])
    /\ lpc' = "loop"
    /\ step' = step + 1
    /\ stepRes' = Append(stepRes, e)
    /\ UNCHANGED <<stepLog, retval>>

\* Mutant: Launch returns the step's error as it is.
stepFailBare(e) ==
    /\ send([Status(StepNames[step], <<0, 1>>) EXCEPT !.Error = e])
    /\ lpc' = "returned"
    /\ stepRes' = Append(stepRes, e)
    /\ retval' = [err |-> e, wraps |-> e]
    /\ UNCHANGED <<step, stepLog>>

\* Launch, lines 309-316, a step returned e: the error Status is sent and
\* Launch returns "<step name>: <e>", which wraps e.
stepFail(e) ==
    /\ send([Status(StepNames[step], <<0, 1>>) EXCEPT !.Error = e])
    /\ lpc' = "returned"
    /\ stepRes' = Append(stepRes, e)
    /\ retval' = [err |-> StepNames[step] \o ": " \o e, wraps |-> e]
    /\ UNCHANGED <<step, stepLog>>

\* Launch, lines 302-307: the Status announcing the step, then its function.
StepBegin ==
    /\ lpc = "loop"
    /\ step <= Len(StepNames)
    /\ send(Status(StepNames[step], <<step - 1, Len(StepNames)>>))
    /\ lpc' = StepPcs[step]
    /\ stepLog' = Append(stepLog, StepNames[step])
    /\ UNCHANGED <<dlvars, progvars, step, stepRes, retval, instvars, calls, procvars>>
    /\ UNCHANGED unitvars

\* Mutant: committing the runtime also stamps the cache time.
commitJavaPathStamping(path) ==
    /\ javaPath' = path
    /\ IF opts.UpdateInstance
       THEN /\ inst' = [inst EXCEPT !.JavaPath = path, !.CachedAt = Now]
            /\ calls' = [calls EXCEPT !.UpdateInstance = @ + 1]
       ELSE UNCHANGED <<inst, calls>>
    /\ UNCHANGED <<inst0, opts>>

\* Mutant: the instance is saved once for the path and once more.
commitJavaPathSavedTwice(path) ==
    /\ javaPath' = path
    /\ IF opts.UpdateInstance
       THEN /\ inst' = [inst EXCEPT !.JavaPath = path]
            /\ calls' = [calls EXCEPT !.UpdateInstance = @ + 2]
       ELSE UNCHANGED <<inst, calls>>
    /\ UNCHANGED <<inst0, opts>>

\* Mutant: the path is put on the instance but the instance is not saved.
commitJavaPathUnsaved(path) ==
    /\ javaPath' = path
    /\ IF opts.UpdateInstance
       THEN inst' = [inst EXCEPT !.JavaPath = path]
       ELSE UNCHANGED inst
    /\ UNCHANGED <<calls, inst0, opts>>

\* commitJavaPath, lines 404-410.
commitJavaPath(path) ==
    /\ javaPath' = path
    /\ IF opts.UpdateInstance
       THEN /\ inst' = [inst EXCEPT !.JavaPath = path]
            /\ calls' = [calls EXCEPT !.UpdateInstance = @ + 1]
       ELSE UNCHANGED <<inst, calls>>
    /\ UNCHANGED <<inst0, opts>>

\* checkJava, lines 360-363.
requiredVersion ==
    IF ~opts.VersionInfo.nil /\ opts.VersionInfo.JavaMajor > 0
    THEN opts.VersionInfo.JavaMajor
    ELSE DefaultJavaMajor

managedJava == "config/mctui/java/" \o ToString(requiredVersion) \o "/bin/java"

\* The stages of DownloadRuntime (config.go, lines 156-187) and the error
\* each one returns.
JavaStages == <<"resolve", "fetch", "extract">>
JavaErrors == <<"resolving java version", "downloading file", "extracting archive">>

\* The path FindBest's installation has.
SystemJava == "/usr/bin/java"

\* Mutant: system detection is tried before the managed directory.
javaSourceSystemFirst ==
    IF javaPath # "" THEN "override"
    ELSE IF inst.JavaPath # "" /\ opts.env.remembered THEN "instance"
    ELSE IF opts.env.system THEN "system"
    ELSE IF opts.env.configDir /\ opts.env.managed THEN "managed"
    ELSE "acquire"

\* checkJava, lines 347-384: the source the runtime comes from, given what
\* is on the machine (opts.env): os.Stat of the remembered path succeeds,
\* os.UserConfigDir yields a directory, the managed directory holds an
\* executable, FindBest finds an installation.
javaSource ==
    IF javaPath # "" THEN "override"
    ELSE IF inst.JavaPath # "" /\ opts.env.remembered THEN "instance"
    ELSE IF opts.env.configDir /\ opts.env.managed THEN "managed"
    ELSE IF opts.env.system THEN "system"
    ELSE "acquire"

\* checkJava, lines 345-384: the override, the instance's remembered path
\* when it still exists, the managed directory, system detection; when none
\* yields a runtime the download is announced.
CheckJava ==
    /\ lpc = "checkJava"
    /\ LET src == javaSource
       IN IF src = "override"
          THEN /\ stepOk
               /\ UNCHANGED <<chanvars, instvars, calls>>
          ELSE IF src = "instance"
          THEN /\ javaPath' = inst.JavaPath
               /\ send(Status("Checking Java", <<0, 1>>))
               /\ stepOk
               /\ UNCHANGED <<inst, inst0, opts, calls>>
          ELSE IF src = "managed"
          THEN /\ commitJavaPath(managedJava)
               /\ send(Status("Checking Java", <<0, 1>>))
               /\ stepOk
          ELSE IF src = "system"
          THEN /\ commitJavaPath(SystemJava)
               /\ send(Status("Checking Java", <<0, 1>>))
               /\ stepOk
          ELSE /\ send(Status("Downloading Java", <<0, 1>>))
               /\ lpc' = IF opts.env.configDir THEN JavaStages[1] ELSE "noConfigDir"
               /\ UNCHANGED <<step, stepLog, stepRes, retval, instvars, calls>>
    /\ UNCHANGED <<dlvars, progvars, procvars>>
    /\ UNCHANGED unitvars

\* checkJava, lines 386-388: the download was announced, but there is no
\* config directory to put the runtime in.
JavaNoConfigDir ==
    /\ lpc = "noConfigDir"
    /\ stepFail("could not determine config directory for java download")
    /\ UNCHANGED <<dlvars, progvars, instvars, calls, procvars>>
    /\ UNCHANGED unitvars

javaError(cause) ==
    "failed to download java " \o ToString(requiredVersion) \o ": " \o cause

\* DownloadRuntime, lines 158, 173, 180: the progress callback of a stage,
\* which checkJava turns into a Status (line 392).
JavaProgress(k) ==
    /\ lpc = JavaStages[k]
    /\ send(Status("Downloading Java", <<0, 1>>))
    /\ lpc' = JavaStages[k] \o "ing"
    /\ UNCHANGED <<step, stepLog, stepRes, retval>>
    /\ UNCHANGED <<dlvars, progvars, instvars, calls, procvars>>
    /\ UNCHANGED unitvars

\* DownloadRuntime, lines 159-186, and checkJava, lines 394-401: the stage
\* fails (resolving and fetching always do once the context is cancelled;
\* after resolving, the version directory is created) or the next one
\* begins; after the last, the executable is looked up, committed and
\* announced.
JavaStageEnd(k) ==
    /\ lpc = JavaStages[k] \o "ing"
    /\ \/ /\ stepFail(javaError(JavaErrors[k]))
          /\ UNCHANGED <<instvars, calls>>
       \/ /\ k = 1
          /\ stepFail(javaError("creating dir"))
          /\ UNCHANGED <<instvars, calls>>
       \/ /\ k < Len(JavaStages)
          /\ ~ctxDone
          /\ lpc' = JavaStages[k + 1]
          /\ UNCHANGED <<step, stepLog, stepRes, retval, chanvars, instvars, calls>>
       \/ /\ k = Len(JavaStages)
          /\ stepFail(javaError("java executable not found"))
          /\ UNCHANGED <<instvars, calls>>
       \/ /\ k = Len(JavaStages)
          /\ commitJavaPath(managedJava)
          /\ send(Status("Checking Java", <<0, 1>>))
          /\ stepOk
    /\ UNCHANGED <<dlvars, progvars, procvars>>
    /\ UNCHANGED unitvars

\* The locals of a Download call once it has returned to its caller.
downloadOver ==
    /\ items' = <<>>
    /\ workerCount' = 1
    /\ dlpc' = "idle"
    /\ result' = NoResult
    /\ workChan' = <<>>
    /\ wk' = [w \in 1..1 |-> Idle]
    /\ completed' = 0
    /\ failed' = 0
    /\ errors' = <<>>
    /\ downloadedBytes' = 0
    /\ attempts' = <<>>
    /\ requests' = <<>>
    /\ mismatch' = {}
    /\ hasSink' = FALSE
    /\ rpc' = "off"
    /\ fs0' = <<>>

\* download.NewManager(n) followed by mgr.Download(ctx, its, sink).
callDownload(its, n, sink) ==
    /\ items' = its
    /\ workerCount' = NewManager(n)
    /\ dlpc' = "call"
    /\ hasSink' = sink
    /\ fs0' = fs
    /\ UNCHANGED <<result, workvars, ghostvars, rpc>>

\* performDownload, lines 793-818: nothing to do for an empty list;
\* otherwise the progress channel and its forwarder are created and
\* Download is called.
performDownload(n, its, count) ==
    IF Len(its) = 0
    THEN /\ stepOk
         /\ UNCHANGED <<fs0, callvars, workvars, ghostvars, progvars, chanvars>>
    ELSE /\ callDownload(its, count, TRUE)
         /\ progressChan' = [progressChan EXCEPT ![n] = <<>>]
         /\ fpc' = [fpc EXCEPT ![n] = "run"]
         /\ lpc' = "performDownload"
         /\ UNCHANGED <<progressClosed, ticks, chanvars, step, stepLog, stepRes, retval>>

\* Mutant: the steps do not look at the instance's flag.
earlyReturnNoSkip ==
    IF ctxDone THEN "context canceled"
    ELSE IF opts.VersionInfo.nil THEN "nil"
    ELSE "go on"

\* Mutant: the steps look at the instance's flag before the context.
earlyReturnFlagFirst ==
    IF opts.VersionInfo.nil \/ inst.IsFullyDownloaded THEN "nil"
    ELSE IF ctxDone THEN "context canceled"
    ELSE "go on"

\* downloadLibraries / downloadAssets, lines 414-427 and 470-483: the
\* outcome decided before any list is built, or "go on".
earlyReturn ==
    IF ctxDone THEN "context canceled"
    ELSE IF opts.VersionInfo.nil THEN "nil"
    ELSE IF inst.IsFullyDownloaded THEN "nil"
    ELSE "go on"

\* downloadLibraries, lines 412-466.
DownloadLibraries ==
    /\ lpc = "downloadLibraries"
    /\ IF earlyReturn = "context canceled"
       THEN /\ stepFail("context canceled")
            /\ UNCHANGED <<fs0, callvars, workvars, ghostvars, progvars, calls>>
       ELSE IF earlyReturn = "nil"
       THEN /\ stepOk
            /\ UNCHANGED <<fs0, callvars, workvars, ghostvars, progvars, chanvars, calls>>
       ELSE LET its == libraryItems(opts.VersionInfo)
            IN /\ performDownload("Downloading libraries", its, LibWorkers)
               /\ calls' = [calls EXCEPT !.built = @ + 1,
                                         !.Download = @ + (IF Len(its) = 0 THEN 0 ELSE 1)]
    /\ UNCHANGED <<ctxDone, fs, instvars, procvars>>
    /\ UNCHANGED unitvars

\* Mutant: performDownload does not look at Result.Failed.
anyFailedIgnored(r) == FALSE

\* performDownload, line 824.
anyFailed(r) == r.Failed > 0

\* Mutant: the step's error is the first item's error.
failureFirstItem(r) == r.Errors[1].URL \o ": download failed"

\* performDownload, line 825: the step's error for a batch with failures.
failureSummary(r) == ToString(r.Failed) \o " items failed to download"

\* performDownload, lines 818-828: Download has returned; the progress
\* channel is closed and the step fails when an item failed.
PerformDownloadReturn ==
    /\ lpc = "performDownload"
    /\ dlpc = "returned"
    /\ progressClosed' = [progressClosed EXCEPT ![StepNames[step]] = TRUE]
    /\ IF anyFailed(result)
       THEN stepFail(failureSummary(result))
       ELSE stepOk /\ UNCHANGED chanvars
    /\ calls' = IF StepNames[step] = "Downloading libraries"
                THEN [calls EXCEPT !.libsFailed = result.Failed]
                ELSE calls
    /\ downloadOver
    /\ UNCHANGED <<ctxDone, fs, progressChan, fpc, ticks, instvars, procvars>>
    /\ UNCHANGED unitvars

\* downloadAssets, lines 468-500: the index is fetched by a manager of its
\* own, without a progress channel, when the file is not there.
DownloadAssets ==
    /\ lpc = "downloadAssets"
    /\ IF earlyReturn = "context canceled"
       THEN /\ stepFail("context canceled")
            /\ UNCHANGED <<fs0, callvars, workvars, ghostvars, hasSink, calls>>
       ELSE IF earlyReturn = "nil"
       THEN /\ stepOk
            /\ UNCHANGED <<fs0, callvars, workvars, ghostvars, hasSink, chanvars, calls>>
       ELSE LET v == opts.VersionInfo
            IN /\ UNCHANGED <<step, stepLog, stepRes, retval, chanvars>>
               /\ IF ~exists(indexPath(v))
                  THEN /\ callDownload(<<[URL |-> v.AssetIndex.URL, Path |-> indexPath(v),
                                          SHA1 |-> v.AssetIndex.SHA1,
                                          Size |-> v.AssetIndex.Size]>>,
                                       IndexWorkers, FALSE)
                       /\ calls' = [calls EXCEPT !.Download = @ + 1]
                       /\ lpc' = "indexDownload"
                  ELSE /\ lpc' = "readIndex"
                       /\ UNCHANGED <<fs0, callvars, workvars, ghostvars, hasSink, calls>>
    /\ UNCHANGED <<ctxDone, fs, progressChan, progressClosed, rpc, fpc, ticks, instvars, procvars>>
    /\ UNCHANGED unitvars

\* downloadAssets, lines 491-500: Download's error is always nil and its
\* Result is discarded.
IndexDownloadReturn ==
    /\ lpc = "indexDownload"
    /\ dlpc = "returned"
    /\ lpc' = "readIndex"
    /\ calls' = [calls EXCEPT !.indexFetch =
                    IF result.Failed > 0 THEN "failed"
                    ELSE IF result.Completed > 0 THEN "fetched" ELSE "not attempted"]
    /\ downloadOver
    /\ UNCHANGED <<ctxDone, fs, progressChan, progressClosed, fpc, ticks, chanvars,
                   step, stepLog, stepRes, retval, instvars, procvars>>
    /\ UNCHANGED unitvars

\* The items of the index's objects, in the order the map yields them.
assetItems(objects, order) ==
    [i \in 1..Len(objects) |-> assetItem(objects[order[i]])]

\* downloadAssets, lines 503-532: read and parse the index, build the list
\* and hand it to performDownload.
ReadIndex ==
    /\ lpc = "readIndex"
    /\ LET path == indexPath(opts.VersionInfo)
           index == parseIndex(fileAt(fs, path), opts.VersionInfo)
       IN IF ~exists(path)
          THEN /\ stepFail("reading asset index: open " \o path \o ": no such file or directory")
               /\ calls' = [calls EXCEPT !.indexReads = @ + 1]
               /\ UNCHANGED <<fs0, callvars, workvars, ghostvars, progvars>>
          ELSE IF index.err
          THEN /\ stepFail("parsing asset index: unexpected end of JSON input")
               /\ calls' = [calls EXCEPT !.indexReads = @ + 1]
               /\ UNCHANGED <<fs0, callvars, workvars, ghostvars, progvars>>
          ELSE \E order \in Orders(Len(index.objects)) :
                 LET its == assetItems(index.objects, order)
                 IN /\ performDownload("Downloading assets", its, AssetWorkers)
                    /\ calls' = [calls EXCEPT !.indexReads = @ + 1, !.built = @ + 1,
                                              !.Download = @ + (IF Len(its) = 0 THEN 0 ELSE 1)]
    /\ UNCHANGED <<ctxDone, fs, instvars, procvars>>
    /\ UNCHANGED unitvars

\* prepareGame, lines 535-554: the directories are created, or one of the
\* MkdirAll calls fails.
PrepareGame ==
    /\ lpc = "prepareGame"
    /\ \/ stepOk /\ UNCHANGED chanvars
       \/ stepFail("creating directory instances/test/.minecraft: permission denied")
    /\ UNCHANGED <<dlvars, progvars, instvars, calls, procvars>>
    /\ UNCHANGED unitvars

\* Mutant: the play is recorded before cmd.Start is known to have succeeded.
lastPlayedCallsEarly(started) ==
    [calls EXCEPT !.UpdateLastPlayed = @ + (IF opts.UpdateLastPlayed THEN 1 ELSE 0)]

\* launchGame, lines 569-581: UpdateLastPlayed, when given, is called once
\* cmd.Start has returned nil; a failed Start returns before it.
lastPlayedCalls(started) ==
    IF started /\ opts.UpdateLastPlayed
    THEN [calls EXCEPT !.UpdateLastPlayed = @ + 1]
    ELSE calls

\* launchGame, lines 556-585: build the arguments (a nil VersionInfo is
\* dereferenced there), start the child (exec refuses once the context is
\* done), announce it, record the play, start the two log readers.
LaunchGame ==
    /\ lpc = "launchGame"
    /\ IF opts.VersionInfo.nil
       THEN /\ lpc' = "panicked"
            /\ UNCHANGED <<step, stepLog, stepRes, retval, chanvars, calls, procvars>>
       ELSE \/ /\ stepFail(IF ctxDone THEN "context canceled"
                           ELSE "fork/exec " \o javaPath \o ": no such file or directory")
               /\ calls' = lastPlayedCalls(FALSE)
               /\ UNCHANGED procvars
            \/ /\ ~ctxDone
               /\ proc' = "running"
               /\ send(Status("Playing", <<0, 1>>))
               /\ calls' = lastPlayedCalls(TRUE)
               /\ rd' = [s \in Streams |-> [pc |-> "scan", line |-> ""]]
               /\ lpc' = "waiting"
               /\ UNCHANGED <<step, stepLog, stepRes, retval, pipes>>
    /\ UNCHANGED <<dlvars, progvars, instvars>>
    /\ UNCHANGED unitvars

\* The child writes a line to one of its streams.
ChildWrite(s) ==
    /\ proc = "running"
    /\ pipes["stdout"].written + pipes["stderr"].written < MaxLines
    /\ \E line \in Lines :
         pipes' = [pipes EXCEPT ![s].buf = Append(@, line), ![s].written = @ + 1]
    /\ UNCHANGED <<dlvars, progvars, chanvars, loopvars, instvars, calls, proc, rd>>
    /\ UNCHANGED unitvars

\* The child exits by itself with status 0 or 1.
ChildExit ==
    /\ proc = "running"
    /\ \E how \in {"exit status 0", "exit status 1"} : proc' = how
    /\ UNCHANGED <<dlvars, progvars, chanvars, loopvars, instvars, calls, pipes, rd>>
    /\ UNCHANGED unitvars

\* exec.CommandContext, line 562: the child is killed once the context is
\* done.
ChildKilled ==
    /\ proc = "running"
    /\ ctxDone
    /\ proc' = "signal: killed"
    /\ UNCHANGED <<dlvars, progvars, chanvars, loopvars, instvars, calls, pipes, rd>>
    /\ UNCHANGED unitvars

\* streamLog, lines 601-603: the scanner yields the next line, or reports
\* the end of the stream (the writer is gone or the read end was closed).
ReaderScan(s) ==
    /\ rd[s].pc = "scan"
    /\ IF pipes[s].closed
       THEN /\ rd' = [rd EXCEPT ![s] = [pc |-> "done", line |-> ""]]
            /\ UNCHANGED pipes
       ELSE IF pipes[s].buf # <<>>
       THEN /\ rd' = [rd EXCEPT ![s] = [pc |-> "line", line |-> Head(pipes[s].buf)]]
            /\ pipes' = [pipes EXCEPT ![s].buf = Tail(@)]
       ELSE /\ proc # "running"
            /\ rd' = [rd EXCEPT ![s] = [pc |-> "done", line |-> ""]]
            /\ UNCHANGED pipes
    /\ UNCHANGED <<dlvars, progvars, chanvars, loopvars, instvars, calls, proc>>
    /\ UNCHANGED unitvars

\* streamLog, lines 605-620: an important line is sent as a Status.
ReaderEmit(s) ==
    /\ rd[s].pc = "line"
    /\ IF isImportant(rd[s].line, s)
       THEN send([Status("Launching", <<0, 1>>) EXCEPT !.LogLine = rd[s].line])
       ELSE UNCHANGED chanvars
    /\ rd' = [rd EXCEPT ![s] = [pc |-> "scan", line |-> ""]]
    /\ UNCHANGED <<dlvars, progvars, loopvars, instvars, calls, proc, pipes>>
    /\ UNCHANGED unitvars

\* Mutant: the child's exit status is not looked at.
waitErrIgnored(p) == NoErr

\* cmd.Wait, line 588: nil for exit status 0, else the exit error.
waitErr(p) == IF p = "exit status 0" THEN NoErr ELSE p

\* launchGame, lines 588-597: cmd.Wait returns once the child is gone and
\* closes the read ends of both pipes; a non-zero exit is the step's error.
GameWait ==
    /\ lpc = "waiting"
    /\ proc # "running"
    /\ pipes' = [s \in Streams |-> [pipes[s] EXCEPT !.closed = TRUE]]
    /\ IF waitErr(proc) = NoErr
       THEN stepOk /\ UNCHANGED chanvars
       ELSE stepFail("game exited with error: " \o waitErr(proc))
    /\ UNCHANGED <<dlvars, progvars, instvars, calls, proc, rd>>
    /\ UNCHANGED unitvars

\* Mutant: the instance is marked without looking at the callback.
mayMarkAlways == TRUE

\* Launch, line 320: the instance is marked only when there is an instance
\* and an UpdateInstance callback.
mayMark == opts.UpdateInstance

\* Launch, lines 319-333: all steps returned nil. The instance is marked
\* and saved (the callback's error is discarded), the Complete status is
\* sent and Launch returns nil.
LaunchComplete ==
    /\ lpc = "loop"
    /\ step > Len(StepNames)
    /\ IF mayMark
       THEN /\ inst' = [inst EXCEPT !.IsFullyDownloaded = TRUE, !.CachedAt = Now]
            /\ \E failedSave \in BOOLEAN :
                 calls' = [calls EXCEPT !.UpdateInstance = @ + 1, !.finalErr = failedSave]
       ELSE UNCHANGED <<inst, calls>>
    /\ send([Status("Complete", <<1, 1>>) EXCEPT !.IsComplete = TRUE])
    /\ lpc' = "returned"
    /\ retval' = [err |-> NoErr, wraps |-> NoErr]
    /\ UNCHANGED <<dlvars, progvars, step, stepLog, stepRes, inst0, opts, javaPath, procvars>>
    /\ UNCHANGED unitvars

\* The consumer of the status channel receives one value.
Receive ==
    /\ statusChan # <<>>
    /\ statusChan' = Tail(statusChan)
    /\ UNCHANGED <<dlvars, progvars, chanLog, loopvars, instvars, calls, procvars>>
    /\ UNCHANGED unitvars

----------------------------------------------------------------------------
(* One Launch call.                                                        *)

\* Everything a launch of version v downloads, in place.
allThere(v) ==
    IF v.nil THEN <<>>
    ELSE LET lib == libraryItems(v)
             asset == [k \in 1..MaxAssets |-> assetItem(IndexObjects[k])]
             arts == {lib[i].Path : i \in 1..Len(lib)} \cup {asset[k].Path : k \in 1..MaxAssets}
         IN [p \in arts \cup {indexPath(v)} |->
                IF \E k \in 1..MaxAssets : asset[k].Path = p
                THEN assetBody(CHOOSE k \in 1..MaxAssets : asset[k].Path = p)
                ELSE Genuine]

\* The file systems a launch can start on: nothing in place and the asset
\* index absent, whole or cut short; or everything in place.
LaunchFileSystems(v) ==
    IF v.nil THEN {<<>>}
    ELSE {<<>>, allThere(v)} \cup {[p \in {indexPath(v)} |-> idx] : idx \in Bodies}

\* What checkJava can find on the machine.
Machines == [remembered : BOOLEAN, configDir : BOOLEAN, managed : BOOLEAN, system : BOOLEAN]
BareMachine == [remembered |-> FALSE, configDir |-> TRUE, managed |-> FALSE, system |-> FALSE]
FullMachine == [remembered |-> TRUE, configDir |-> TRUE, managed |-> TRUE, system |-> TRUE]

Options == [hasChan : BOOLEAN, UpdateInstance : BOOLEAN, UpdateLastPlayed : BOOLEAN,
            VersionInfo : Versions, env : Machines]

\* A launch starts with the runtime to be discovered (for an instance that
\* is cached), or with a runtime override and the instance cached or not;
\* both callbacks are given or neither. Launches without a status channel
\* or without callbacks have nothing to download. Metadata that declares no
\* size for a library is launched on an empty file system.
Init ==
    /\ ctxDone = FALSE
    /\ opts \in Options
    /\ opts.UpdateInstance = opts.UpdateLastPlayed
    /\ fs \in LaunchFileSystems(opts.VersionInfo)
    /\ fs0 = <<>>
    /\ items = <<>>
    /\ workerCount = 1
    /\ dlpc = "idle"
    /\ result = NoResult
    /\ workChan = <<>>
    /\ wk = [w \in 1..1 |-> Idle]
    /\ completed = 0
    /\ failed = 0
    /\ errors = <<>>
    /\ downloadedBytes = 0
    /\ attempts = <<>>
    /\ requests = <<>>
    /\ mismatch = {}
    /\ NoProgress
    /\ lpc = "loop"
    /\ step = 1
    /\ \E cached \in BOOLEAN, remembered \in {"", "/old/java"} :
         inst = [IsFullyDownloaded |-> cached, CachedAt |-> IF cached THEN 1 ELSE 0,
                 JavaPath |-> remembered]
    /\ inst0 = inst
    /\ javaPath \in {"", "/opt/java"}
    /\ javaPath # "" =>
          IF inst.JavaPath = "" THEN opts.env = BareMachine ELSE opts.env = FullMachine
    /\ opts.env.remembered => inst.JavaPath # ""
    /\ (javaPath = "" \/ inst.JavaPath # "") =>
          /\ inst.IsFullyDownloaded
          /\ opts.hasChan
          /\ opts.VersionInfo \in {Version([k \in 1..MaxLibs |-> plainLib(k)]), NoVersion}
          /\ fs = allThere(opts.VersionInfo)
    /\ opts.VersionInfo = UnsizedVersion =>
          /\ javaPath # ""
          /\ inst.JavaPath = ""
          /\ ~inst.IsFullyDownloaded
          /\ opts.UpdateInstance
          /\ fs = <<>>
    /\ inst.IsFullyDownloaded => fs \in {<<>>, allThere(opts.VersionInfo)}
    /\ ~inst.IsFullyDownloaded => opts.hasChan
    /\ ~opts.UpdateInstance => fs = allThere(opts.VersionInfo) \/ inst.IsFullyDownloaded
    /\ statusChan = <<>>
    /\ chanLog = [terminals |-> 0, late |-> FALSE, lost |-> FALSE, complete |-> FALSE]
    /\ stepLog = <<>>
    /\ stepRes = <<>>
    /\ retval = NoResult
    /\ calls = [UpdateInstance |-> 0, UpdateLastPlayed |-> 0, Download |-> 0,
                built |-> 0, indexReads |-> 0, finalErr |-> FALSE,
                libsFailed |-> 0, indexFetch |-> "none"]
    /\ proc = "none"
    /\ pipes = [s \in Streams |-> [buf |-> <<>>, written |-> 0, closed |-> FALSE]]
    /\ rd = [s \in Streams |-> [pc |-> "off", line |-> ""]]
    /\ NoUnit

Next ==
    \/ StepBegin
    \/ CheckJava
    \/ JavaNoConfigDir
    \/ \E k \in 1..Len(JavaStages) : JavaProgress(k)
    \/ \E k \in 1..Len(JavaStages) : JavaStageEnd(k)
    \/ DownloadLibraries
    \/ PerformDownloadReturn
    \/ DownloadAssets
    \/ IndexDownloadReturn
    \/ ReadIndex
    \/ PrepareGame
    \/ LaunchGame
    \/ \E s \in Streams : ChildWrite(s)
    \/ ChildExit
    \/ ChildKilled
    \/ \E s \in Streams : ReaderScan(s)
    \/ \E s \in Streams : ReaderEmit(s)
    \/ GameWait
    \/ LaunchComplete
    \/ Receive
    \/ ReporterTick
    \/ ReporterStop
    \/ \E n \in DownloadSteps : ForwardProgress(n)
    \/ NextDownload

Spec == Init /\ [][Next]_vars

----------------------------------------------------------------------------
(* One Launch call whose status channel, when there is one, is never read. *)
(* Every goroutine that can take a step eventually takes one, requests and *)
(* the runtime acquisition come to an end, and the game exits.             *)

NextUnread ==
    \/ StepBegin
    \/ CheckJava
    \/ JavaNoConfigDir
    \/ \E k \in 1..Len(JavaStages) : JavaProgress(k)
    \/ \E k \in 1..Len(JavaStages) : JavaStageEnd(k)
    \/ DownloadLibraries
    \/ PerformDownloadReturn
    \/ DownloadAssets
    \/ IndexDownloadReturn
    \/ ReadIndex
    \/ PrepareGame
    \/ LaunchGame
    \/ \E s \in Streams : ChildWrite(s)
    \/ ChildExit
    \/ ChildKilled
    \/ \E s \in Streams : ReaderScan(s)
    \/ \E s \in Streams : ReaderEmit(s)
    \/ GameWait
    \/ LaunchComplete
    \/ ReporterTick
    \/ ReporterStop
    \/ \E n \in DownloadSteps : ForwardProgress(n)
    \/ NextDownload

SpecUnread == Init /\ [][NextUnread]_vars /\ WF_vars(NextUnread)

----------------------------------------------------------------------------
(* One Download call without a progress channel in which every goroutine   *)
(* that can take a step eventually takes one and every request comes to an *)
(* end.                                                                    *)

SpecDownloadFair == InitDownload /\ [][NextDownload]_vars /\ WF_vars(NextDownload)

----------------------------------------------------------------------------
(* One Download call with a progress channel that nobody reads: it is      *)
(* empty or already full when Download is called. Every goroutine that can *)
(* take a step eventually takes one and every request comes to an end.     *)

\* A value left in the channel by an earlier use.
StaleProgress ==
    [TotalBytes |-> 0, TotalItems |-> 0, DownloadedBytes |-> 0, CompletedItems |-> 0]

InitSink ==
    /\ ctxDone = FALSE
    /\ items \in Batches
    /\ fs \in FileSystems(items)
    /\ fs0 = fs
    /\ dlpc = "call"
    /\ result = NoResult
    /\ workChan = <<>>
    /\ \E n \in 0..MaxWorkers : workerCount = NewManager(n)
    /\ wk = [w \in Workers |-> Idle]
    /\ completed = 0
    /\ failed = 0
    /\ errors = <<>>
    /\ downloadedBytes = 0
    /\ attempts = <<>>
    /\ requests = <<>>
    /\ mismatch = {}
    /\ hasSink = TRUE
    /\ \E held \in 0..CallerSinkCap :
         progressChan = [n \in {CallerSink} |-> [k \in 1..held |-> StaleProgress]]
    /\ progressClosed = [n \in DownloadSteps |-> FALSE]
    /\ rpc = "off"
    /\ fpc = [n \in DownloadSteps |-> "off"]
    /\ ticks = 0
    /\ NoLaunch
    /\ NoUnit

NextSink ==
    \/ NextDownload
    \/ ReporterTick
    \/ ReporterStop

SpecSink == InitSink /\ [][NextSink]_vars /\ WF_vars(NextSink)

----------------------------------------------------------------------------
(* The batches that downloadLibraries and downloadAssets build, as a       *)
(* function of the version metadata and of the decoded asset index.        *)

MaxBatchLibs == 2
MaxNames == 2

\* A library whose artifact goes to the p-th path, permitted by its rules or
\* not, with or without an artifact.
batchLib(p, allowed, has) ==
    [(IF allowed THEN plainLib(p) ELSE disallowedLib(p)) EXCEPT !.Artifact.has = has]

\* Any list of up to MaxBatchLibs libraries: paths may repeat.
AnyLibLists ==
    UNION {[1..n -> {batchLib(p, a, h) : p \in 1..MaxBatchLibs, a \in BOOLEAN, h \in BOOLEAN}] :
           n \in 0..MaxBatchLibs}

\* Any mapping of up to MaxNames asset names (the indices) to objects:
\* names are distinct, hashes may repeat.
AnyObjects ==
    UNION {[1..n -> {[Hash |-> assetHash(k), Size |-> Len(assetBody(k))] : k \in 1..MaxNames}] :
           n \in 0..MaxNames}

versionWith(libs, client, objects) ==
    [Version(libs) EXCEPT !.Client.has = client, !.AssetIndex.Objects = objects]

AnyVersions ==
    {versionWith(l, c, <<>>) : l \in AnyLibLists, c \in BOOLEAN} \cup
    {versionWith(<<>>, TRUE, o) : o \in AnyObjects}

\* downloadLibraries, lines 429-465: the batch handed to performDownload.
BuildLibraryBatch ==
    /\ lpc = "none"
    /\ stepLog = <<>>
    /\ items' = libraryItems(opts.VersionInfo)
    /\ workerCount' = LibWorkers
    /\ stepLog' = <<"Downloading libraries">>
    /\ UNCHANGED <<envvars, dlpc, result, workvars, ghostvars, progvars, chanvars,
                   lpc, step, stepRes, retval, instvars, calls, procvars>>
    /\ UNCHANGED unitvars

\* downloadAssets, lines 518-532: the batch handed to performDownload, in
\* one of the orders the map of objects can be ranged over.
BuildAssetBatch ==
    /\ lpc = "none"
    /\ stepLog = <<>>
    /\ LET index == parseIndex(Genuine, opts.VersionInfo)
       IN \E order \in Orders(Len(index.objects)) :
             items' = assetItems(index.objects, order)
    /\ workerCount' = AssetWorkers
    /\ stepLog' = <<"Downloading assets">>
    /\ UNCHANGED <<envvars, dlpc, result, workvars, ghostvars, progvars, chanvars,
                   lpc, step, stepRes, retval, instvars, calls, procvars>>
    /\ UNCHANGED unitvars

InitBatches ==
    /\ ctxDone = FALSE
    /\ fs = <<>>
    /\ fs0 = <<>>
    /\ items = <<>>
    /\ workerCount = 1
    /\ dlpc = "idle"
    /\ result = NoResult
    /\ workChan = <<>>
    /\ wk = [w \in 1..1 |-> Idle]
    /\ completed = 0
    /\ failed = 0
    /\ errors = <<>>
    /\ downloadedBytes = 0
    /\ attempts = <<>>
    /\ requests = <<>>
    /\ mismatch = {}
    /\ NoProgress
    /\ lpc = "none"
    /\ step = 0
    /\ inst = [IsFullyDownloaded |-> FALSE, CachedAt |-> 0, JavaPath |-> ""]
    /\ inst0 = inst
    /\ \E v \in AnyVersions :
         opts = [hasChan |-> FALSE, UpdateInstance |-> FALSE, UpdateLastPlayed |-> FALSE,
                 VersionInfo |-> v, env |-> BareMachine]
    /\ javaPath = ""
    /\ statusChan = <<>>
    /\ chanLog = [terminals |-> 0, late |-> FALSE, lost |-> FALSE, complete |-> FALSE]
    /\ stepLog = <<>>
    /\ stepRes = <<>>
    /\ retval = NoResult
    /\ calls = [UpdateInstance |-> 0, UpdateLastPlayed |-> 0, Download |-> 0,
                built |-> 0, indexReads |-> 0, finalErr |-> FALSE,
                libsFailed |-> 0, indexFetch |-> "none"]
    /\ proc = "none"
    /\ pipes = [s \in Streams |-> [buf |-> <<>>, written |-> 0, closed |-> FALSE]]
    /\ rd = [s \in Streams |-> [pc |-> "off", line |-> ""]]
    /\ NoUnit

NextBatches ==
    \/ BuildLibraryBatch
    \/ BuildAssetBatch

SpecBatches == InitBatches /\ [][NextBatches]_vars

----------------------------------------------------------------------------
(* Functions called on their own, on arguments drawn from bounded sets.    *)

MaxRules == 2

\* The values of runtime.GOOS tried: the three the osMap knows and one more.
Platforms == {"linux", "darwin", "windows", "freebsd"}

\* A rule: an action, and no OS block, an OS block without a name, or an OS
\* block with one of Mojang's names.
Rules ==
    [Action : {"allow", "disallow"},
     OS : {NoOS} \cup [present : {TRUE}, Name : {"", "linux", "osx", "windows"}]]

RuleLists == UNION {[1..n -> Rules] : n \in 0..MaxRules}

LibraryAppliesCalls == [fn : {"libraryApplies"}, rules : RuleLists, goos : Platforms]

CallLibraryApplies ==
    /\ call # NoCall
    /\ call.fn = "libraryApplies"
    /\ ret = NoCall
    /\ ret' = [value |-> libraryApplies(call.rules, call.goos)]
    /\ UNCHANGED <<dlvars, progvars, launchvars, call, Accounts, ActiveID, appvars>>

MaxInstalls == 3

\* What FindAll can report: installations by major version and word size.
Installations == [MajorVersion : {8, 11, 17}, Is64Bit : BOOLEAN]

InstallLists == UNION {[1..n -> Installations] : n \in 0..MaxInstalls}

\* Mutant: the first loop prefers the newer installation.
RECURSIVE firstPassNewest(_, _, _, _)
firstPassNewest(insts, minVersion, i, best) ==
    IF i > Len(insts) THEN best
    ELSE IF insts[i].MajorVersion < minVersion \/ ~insts[i].Is64Bit
    THEN firstPassNewest(insts, minVersion, i + 1, best)
    ELSE IF best = 0 \/ insts[i].MajorVersion > insts[best].MajorVersion
    THEN firstPassNewest(insts, minVersion, i + 1, i)
    ELSE firstPassNewest(insts, minVersion, i + 1, best)

\* FindBest, lines 95-107: the first loop, from index i on; best is the index
\* of the installation held so far, 0 for nil.
RECURSIVE firstPass(_, _, _, _)
firstPass(insts, minVersion, i, best) ==
    IF i > Len(insts) THEN best
    ELSE IF insts[i].MajorVersion < minVersion THEN firstPass(insts, minVersion, i + 1, best)
    ELSE IF ~insts[i].Is64Bit THEN firstPass(insts, minVersion, i + 1, best)
    ELSE IF best = 0 \/ insts[i].MajorVersion < insts[best].MajorVersion
    THEN firstPass(insts, minVersion, i + 1, i)
    ELSE firstPass(insts, minVersion, i + 1, best)

\* FindBest, lines 110-116: the second loop.
RECURSIVE secondPass(_, _, _)
secondPass(insts, i, best) ==
    IF i > Len(insts) THEN best
    ELSE IF insts[i].Is64Bit /\ (best = 0 \/ insts[i].MajorVersion > insts[best].MajorVersion)
    THEN secondPass(insts, i + 1, i)
    ELSE secondPass(insts, i + 1, best)

\* FindBest, lines 88-119, on what FindAll found: the index of the
\* installation returned, 0 for nil.
FindBest(insts, minVersion) ==
    IF Len(insts) = 0 THEN 0
    ELSE LET best == firstPass(insts, minVersion, 1, 0)
         IN IF best = 0 THEN secondPass(insts, 1, 0) ELSE best

FindBestCalls == [fn : {"FindBest"}, installations : InstallLists, minVersion : {8, 11, 17, 21}]

CallFindBest ==
    /\ call # NoCall
    /\ call.fn = "FindBest"
    /\ ret = NoCall
    /\ ret' = [value |-> FindBest(call.installations, call.minVersion)]
    /\ UNCHANGED <<dlvars, progvars, launchvars, call, Accounts, ActiveID, appvars>>

MaxVars == 3

\* strings.ReplaceAll(s, old, new) for a non-empty old: the non-overlapping
\* occurrences of old, from the left.
RECURSIVE ReplaceAll(_, _, _)
ReplaceAll(s, old, new) ==
    IF Len(s) < Len(old) THEN s
    ELSE IF SubSeq(s, 1, Len(old)) = old
    THEN new \o ReplaceAll(SubSeq(s, Len(old) + 1, Len(s)), old, new)
    ELSE SubSeq(s, 1, 1) \o ReplaceAll(SubSeq(s, 2, Len(s)), old, new)

\* Keys of the replacement map of buildGameArguments, lines 711-722: the entries whose placeholders occur in the tokens and values tried.
PlaceholderKeys ==
    SubSeq(<<"${auth_player_name}", "${version_name}", "${auth_uuid}", "${game_directory}">>,
           1, MaxVars)

\* getPlayerName, lines 752-757, and the uuid default of buildGameArguments.
getPlayerName(name) == IF name # "" THEN name ELSE "Player"
uuidOrDefault(uuid) == IF uuid = "" THEN "00000000-0000-0000-0000-000000000000" ELSE uuid

\* buildGameArguments, lines 711-722: the values of the map's entries, in
\* the order of PlaceholderKeys.
replacementValues(o) ==
    SubSeq(<<getPlayerName(o.PlayerName), o.VersionID, uuidOrDefault(o.UUID), "instances/test/.minecraft">>,
           1, MaxVars)

\* replaceVars, lines 744-750: one ReplaceAll per entry of the map, in the
\* order the map is ranged over; k is the position in that order.
RECURSIVE replaceFrom(_, _, _, _)
replaceFrom(s, values, order, k) ==
    IF k > Len(order) THEN s
    ELSE replaceFrom(ReplaceAll(s, PlaceholderKeys[order[k]], values[order[k]]),
                     values, order, k + 1)

replaceVars(s, values, order) == replaceFrom(s, values, order, 1)

\* Tokens of the version's game arguments, and the launch options the
\* values come from.
Tokens ==
    {"--username", "${auth_player_name}", "--username ${auth_player_name}",
     "${version_name}", "--uuid=${auth_uuid}", "${auth_player_name}${version_name}"}

NameOptions ==
    [PlayerName : {"", "Alice", "${version_name}", "${auth_uuid}"},
     VersionID : {"1.21.4", "b${auth_uuid}"},
     UUID : {"", "u-1"}]

ReplaceVarsCalls == [fn : {"replaceVars"}, token : Tokens, options : NameOptions]

CallReplaceVars ==
    /\ call # NoCall
    /\ call.fn = "replaceVars"
    /\ ret = NoCall
    /\ \E order \in Orders(MaxVars) :
         ret' = [value |-> replaceVars(call.token, replacementValues(call.options), order)]
    /\ UNCHANGED <<dlvars, progvars, launchvars, call, Accounts, ActiveID, appvars>>

InstancePath == "instances/test"
MainClass == "net.minecraft.client.main.Main"
DefaultJVMArgs == <<"-Xmx2G", "-Xms512M">>

\* Mutant: the instance's and the global JVM arguments are both passed.
jvmArgsBoth(instArgs, cfgArgs) ==
    IF Len(instArgs) + Len(cfgArgs) > 0 THEN instArgs \o cfgArgs ELSE DefaultJVMArgs

\* buildArguments, lines 630-637: the JVM arguments of the instance, else
\* those of the configuration, else the defaults.
jvmArgs(instArgs, cfgArgs) ==
    IF Len(instArgs) > 0 THEN instArgs
    ELSE IF Len(cfgArgs) > 0 THEN cfgArgs
    ELSE DefaultJVMArgs

\* strings.Join(paths, sep).
RECURSIVE joinWith(_, _)
joinWith(paths, sep) ==
    IF paths = <<>> THEN ""
    ELSE IF Len(paths) = 1 THEN paths[1]
    ELSE paths[1] \o sep \o joinWith(Tail(paths), sep)

\* buildClasspath, lines 667-676: the paths of the rule-permitted libraries
\* that have an artifact.
RECURSIVE classpathLibs(_, _)
classpathLibs(libs, goos) ==
    IF libs = <<>> THEN <<>>
    ELSE LET lib == Head(libs)
         IN IF ~libraryApplies(lib.Rules, goos) \/ ~lib.Artifact.has
            THEN classpathLibs(Tail(libs), goos)
            ELSE <<Join(LibrariesDir, lib.Artifact.Path)>> \o classpathLibs(Tail(libs), goos)

\* buildClasspath, lines 678-681: the client binary is always appended.
classpathPaths(v, goos) == classpathLibs(v.Libraries, goos) \o <<clientPath(v)>>

\* buildClasspath, lines 683-688.
buildClasspath(v, goos) ==
    joinWith(classpathPaths(v, goos), IF goos = "windows" THEN ";" ELSE ":")

\* buildGameArguments, lines 725-733: each string token of the version's
\* game arguments after replaceVars; orders[k] is the order in which the map
\* is ranged over for the k-th token.
buildGameArguments(tokens, o, orders) ==
    [k \in 1..Len(tokens) |-> replaceVars(tokens[k], replacementValues(o), orders[k])]

\* buildArguments, lines 624-660.
buildArguments(instArgs, cfgArgs, goos, v, gameArgs) ==
    jvmArgs(instArgs, cfgArgs)
    \o (IF goos = "darwin" THEN <<"-XstartOnFirstThread">> ELSE <<>>)
    \o <<"-Djava.library.path=" \o Join(InstancePath, "natives")>>
    \o <<"-cp", buildClasspath(v, goos)>>
    \o <<MainClass>>
    \o gameArgs

\* The launches tried: JVM arguments on the instance, in the configuration,
\* on both or on neither; every platform; libraries permitted or not; game
\* arguments or none.
BuildArgumentsCalls ==
    [fn : {"buildArguments"},
     instArgs : {<<>>, <<"-Xmx4G">>},
     cfgArgs : {<<>>, <<"-Xmx1G", "-Xss1M">>},
     goos : Platforms,
     version : {versionWith(l, c, <<>>) :
                   l \in {<<>>, <<plainLib(1)>>, <<disallowedLib(1), plainLib(2)>>},
                   c \in BOOLEAN},
     game : {<<>>, <<"--username", "${auth_player_name}">>},
     options : {[PlayerName |-> "Alice", VersionID |-> "1.21.4", UUID |-> ""]}]

CallBuildArguments ==
    /\ call # NoCall
    /\ call.fn = "buildArguments"
    /\ ret = NoCall
    /\ \E orders \in [1..Len(call.game) -> Orders(MaxVars)] :
         ret' = [value |-> buildArguments(call.instArgs, call.cfgArgs, call.goos, call.version,
                                          buildGameArguments(call.game, call.options, orders))]
    /\ UNCHANGED <<dlvars, progvars, launchvars, call, Accounts, ActiveID, appvars>>

MaxVersionLen == 3

\* strings.Split(s, "."): cur is the component being read.
RECURSIVE splitDots(_, _)
splitDots(s, cur) ==
    IF s = "" THEN <<cur>>
    ELSE IF SubSeq(s, 1, 1) = "." THEN <<cur>> \o splitDots(SubSeq(s, 2, Len(s)), "")
    ELSE splitDots(SubSeq(s, 2, Len(s)), cur \o SubSeq(s, 1, 1))

Split(s) == splitDots(s, "")

Digits == "0123456789"
isDigit(c) == \E d \in 0..9 : SubSeq(Digits, d + 1, d + 1) = c
digitValue(c) == CHOOSE d \in 0..9 : SubSeq(Digits, d + 1, d + 1) = c

\* The digits of strconv.Atoi: -1 stands for a syntax error.
RECURSIVE atoiDigits(_, _)
atoiDigits(s, acc) ==
    IF s = "" THEN acc
    ELSE IF ~isDigit(SubSeq(s, 1, 1)) THEN -1
    ELSE atoiDigits(SubSeq(s, 2, Len(s)), acc * 10 + digitValue(SubSeq(s, 1, 1)))

\* strconv.Atoi(s): an optional sign, then at least one decimal digit; the
\* value is 0 when err is set.
Atoi(s) ==
    LET signed == s # "" /\ SubSeq(s, 1, 1) \in {"+", "-"}
        body == IF signed THEN SubSeq(s, 2, Len(s)) ELSE s
        n == IF body = "" THEN -1 ELSE atoiDigits(body, 0)
    IN IF n < 0 THEN [v |-> 0, err |-> TRUE]
       ELSE [v |-> IF signed /\ SubSeq(s, 1, 1) = "-" THEN 0 - n ELSE n, err |-> FALSE]

\* strings.HasPrefix(s, prefix).
HasPrefix(s, prefix) ==
    Len(s) >= Len(prefix) /\ SubSeq(s, 1, Len(prefix)) = prefix

\* Mutant: the legacy "1.N" form is not told apart.
parseMajorVersionModern(version) ==
    Atoi(Split(version)[1]).v

\* parseMajorVersion, lines 255-273.
parseMajorVersion(version) ==
    IF HasPrefix(version, "1.") /\ Len(Split(version)) >= 2
    THEN Atoi(Split(version)[2]).v
    ELSE IF Len(Split(version)) >= 1 THEN Atoi(Split(version)[1]).v
    ELSE 0

\* The version strings tried: those of TestParseMajorVersion, other shapes
\* that `java -version` does not print, and every string of up to
\* MaxVersionLen characters over a digit of the legacy form, another digit,
\* the dot and a letter.
RECURSIVE stringsUpTo(_)
stringsUpTo(n) ==
    IF n = 0 THEN {""}
    ELSE stringsUpTo(n - 1) \cup
         {s \o c : s \in stringsUpTo(n - 1), c \in {"1", "7", ".", "a"}}

VersionStrings ==
    {"1.8.0_391", "1.8.0", "11.0.21", "17.0.9", "21.0.1", "21", "", "abc",
     "1.x", "17-ea", "+8", "-5.0", "1.21.4"} \cup stringsUpTo(MaxVersionLen)

ParseMajorVersionCalls == [fn : {"parseMajorVersion"}, version : VersionStrings]

CallParseMajorVersion ==
    /\ call # NoCall
    /\ call.fn = "parseMajorVersion"
    /\ ret = NoCall
    /\ ret' = [value |-> parseMajorVersion(call.version)]
    /\ UNCHANGED <<dlvars, progvars, launchvars, call, Accounts, ActiveID, appvars>>

MaxComponents == 3

\* strings.Split(s, sep) for a separator of one character: cur is the
\* component being read.
RECURSIVE splitSep(_, _, _)
splitSep(s, sep, cur) ==
    IF s = "" THEN <<cur>>
    ELSE IF SubSeq(s, 1, 1) = sep THEN <<cur>> \o splitSep(SubSeq(s, 2, Len(s)), sep, "")
    ELSE splitSep(SubSeq(s, 2, Len(s)), sep, cur \o SubSeq(s, 1, 1))

\* filepath.Clean of a rooted path, by components: empty and "." components
\* are dropped, ".." removes the component before it and is dropped at the
\* root.
RECURSIVE cleanFrom(_, _)
cleanFrom(parts, out) ==
    IF parts = <<>> THEN out
    ELSE IF Head(parts) \in {"", "."} THEN cleanFrom(Tail(parts), out)
    ELSE IF Head(parts) = ".."
    THEN cleanFrom(Tail(parts), IF out = <<>> THEN out ELSE SubSeq(out, 1, Len(out) - 1))
    ELSE cleanFrom(Tail(parts), Append(out, Head(parts)))

Clean(path) == "/" \o joinWith(cleanFrom(splitSep(path, "/", ""), <<>>), "/")

\* filepath.Join(dest, relPath), lines 311 and 360: the elements joined by
\* the separator, then cleaned.
filepathJoin(dest, relPath) == Clean(dest \o "/" \o relPath)

\* The destination directory handed to extractArchive (a rooted path).
DestDir == "/d/r"

\* extractTarGz, lines 300-337, and extractZip, lines 350-380, for one
\* entry: the first component of the name is stripped, an entry with
\* nothing left is skipped, and the rest is joined to dest; a directory, a
\* regular file or (tar only) a symlink is then created at target. No other
\* test is made on the name. The separator is "/" (os.PathSeparator of the
\* Unix builds; zip names always use it).
extractEntry(name, kind, dest) ==
    LET parts == splitSep(name, "/", "")
        relPath == joinWith(Tail(parts), "/")
    IN  IF Len(parts) <= 1 \/ relPath = "" \/ kind = "other"
        THEN [created |-> FALSE, target |-> ""]
        ELSE [created |-> TRUE, target |-> filepathJoin(dest, relPath)]

\* Entry names: up to MaxComponents components joined by "/", over the top
\* directory, a name, the parent reference and the empty component.
RECURSIVE componentsUpTo(_)
componentsUpTo(n) ==
    IF n = 0 THEN {<<>>}
    ELSE componentsUpTo(n - 1) \cup
         {Append(s, c) : s \in componentsUpTo(n - 1), c \in {"t", "a", "..", ""}}

EntryNames == {joinWith(s, "/") : s \in componentsUpTo(MaxComponents) \ {<<>>}}

\* tar entries are directories, regular files, symlinks or of another type
\* (nothing is created for those); zip entries are directories or files.
EntryKinds(archive) ==
    IF archive = "tar.gz" THEN {"dir", "reg", "symlink", "other"} ELSE {"dir", "reg"}

ExtractCalls ==
    UNION {[fn : {"extractArchive"}, archive : {a}, name : EntryNames, kind : EntryKinds(a)] :
              a \in {"tar.gz", "zip"}}

CallExtract ==
    /\ call # NoCall
    /\ call.fn = "extractArchive"
    /\ ret = NoCall
    /\ ret' = [value |-> extractEntry(call.name, call.kind, DestDir)]
    /\ UNCHANGED <<dlvars, progvars, launchvars, call, Accounts, ActiveID, appvars>>

\*+ further calls

Calls ==
    LibraryAppliesCalls \cup FindBestCalls \cup ReplaceVarsCalls \cup BuildArgumentsCalls
    \cup ParseMajorVersionCalls \cup ExtractCalls

InitCalls ==
    /\ ctxDone = FALSE
    /\ fs = <<>>
    /\ fs0 = <<>>
    /\ items = <<>>
    /\ workerCount = 1
    /\ dlpc = "idle"
    /\ result = NoResult
    /\ workChan = <<>>
    /\ wk = [w \in 1..1 |-> Idle]
    /\ completed = 0
    /\ failed = 0
    /\ errors = <<>>
    /\ downloadedBytes = 0
    /\ attempts = <<>>
    /\ requests = <<>>
    /\ mismatch = {}
    /\ NoProgress
    /\ NoLaunch
    /\ call \in Calls
    /\ ret = NoCall
    /\ Accounts = <<>>
    /\ ActiveID = ""
    /\ NoApp

NextCalls ==
    \/ CallLibraryApplies
    \/ CallFindBest
    \/ CallReplaceVars
    \/ CallBuildArguments
    \/ CallParseMajorVersion
    \/ CallExtract

SpecCalls == InitCalls /\ [][NextCalls]_vars

----------------------------------------------------------------------------
(* The AccountManager: Add and SetActive called in any sequence on a new   *)
(* manager.                                                                *)

MaxAccounts == 3

\* The accounts tried: the profile IDs are not empty; an account can be
\* added again under another name.
AccountIDs == {ToString(k) : k \in 1..MaxAccounts}
AccountSet == [ID : AccountIDs, Name : {"A", "B"}]

\* Position of the first stored account with this ID, 0 if there is none.
indexOfAccount(accounts, id) ==
    IF \E i \in 1..Len(accounts) : accounts[i].ID = id
    THEN CHOOSE i \in 1..Len(accounts) :
            /\ accounts[i].ID = id
            /\ \A j \in 1..Len(accounts) : accounts[j].ID = id => i <= j
    ELSE 0

\* Mutant: the account added last becomes the active one.
activeAfterAppendLatest(active, id) == id

\* Add, lines 56-58: an appended account becomes active if none is.
activeAfterAppend(active, id) ==
    IF active = "" THEN id ELSE active

\* AccountManager.Add, lines 47-59.
Add(acc) ==
    /\ LET i == indexOfAccount(Accounts, acc.ID)
       IN IF i # 0
          THEN /\ Accounts' = [Accounts EXCEPT ![i] = acc]
               /\ UNCHANGED ActiveID
          ELSE /\ Accounts' = Append(Accounts, acc)
               /\ ActiveID' = activeAfterAppend(ActiveID, acc.ID)
    /\ call' = [fn |-> "Add", acc |-> acc]
    /\ ret' = [value |-> ""]
    /\ UNCHANGED <<dlvars, progvars, launchvars, appvars>>

\* AccountManager.SetActive, lines 75-83: the returned error is its text,
\* "" for nil.
SetActive(id) ==
    /\ IF indexOfAccount(Accounts, id) # 0
       THEN /\ ActiveID' = id
            /\ ret' = [value |-> ""]
       ELSE /\ ret' = [value |-> "account not found: " \o id]
            /\ UNCHANGED ActiveID
    /\ call' = [fn |-> "SetActive", id |-> id]
    /\ UNCHANGED <<dlvars, progvars, launchvars, Accounts, appvars>>

\* NewAccountManager, lines 18-23.
InitAccounts ==
    /\ ctxDone = FALSE
    /\ fs = <<>>
    /\ fs0 = <<>>
    /\ items = <<>>
    /\ workerCount = 1
    /\ dlpc = "idle"
    /\ result = NoResult
    /\ workChan = <<>>
    /\ wk = [w \in 1..1 |-> Idle]
    /\ completed = 0
    /\ failed = 0
    /\ errors = <<>>
    /\ downloadedBytes = 0
    /\ attempts = <<>>
    /\ requests = <<>>
    /\ mismatch = {}
    /\ NoProgress
    /\ NoLaunch
    /\ call = NoCall
    /\ ret = NoCall
    /\ Accounts = <<>>
    /\ ActiveID = ""
    /\ NoApp

NextAccounts ==
    \/ \E acc \in AccountSet : Add(acc)
    \/ \E id \in AccountIDs \cup {"", "9"} : SetActive(id)

SpecAccounts == InitAccounts /\ [][NextAccounts]_vars

----------------------------------------------------------------------------
(* The application's launch: startLaunch makes the status channel and the  *)
(* goroutine that runs Launch; the UI receives through waitForLaunchStatus *)
(* commands and can cancel. Launch itself is what it does to the channel:  *)
(* statuses offered without blocking, then a terminal one, then its return.*)

AppChanCap == 2
MaxStatuses == 2

\* A non-blocking send (sendStatus) on the channel Launch was made with.
offer(ch, s) ==
    IF Len(ch.buf) < AppChanCap THEN [ch EXCEPT !.buf = Append(@, s)] ELSE ch

\* startLaunch, lines 433-494, once the version details are resolved: the
\* channel is made and stored in the Model, the goroutine is started and
\* the first waitForLaunchStatus command runs.
StartLaunch ==
    /\ gpc = "off"
    /\ launchStatusChan' = "chan"
    /\ appChan' = [buf |-> <<>>, closes |-> 0]
    /\ gpc' = "launch"
    /\ cpc' = "start"
    /\ UNCHANGED <<launchCtxDone, sent>>
    /\ UNCHANGED <<dlvars, progvars, launchvars, call, ret, Accounts, ActiveID>>

\* Launch, running in the goroutine (line 479), offers a status.
LaunchSend ==
    /\ gpc = "launch"
    /\ sent < MaxStatuses
    /\ sent' = sent + 1
    /\ appChan' = offer(appChan, "update")
    /\ UNCHANGED <<launchStatusChan, launchCtxDone, gpc, cpc>>
    /\ UNCHANGED <<dlvars, progvars, launchvars, call, ret, Accounts, ActiveID>>

\* Launch returns: it has offered its error or Complete status; the
\* goroutine goes on to line 482.
LaunchReturn ==
    /\ gpc = "launch"
    /\ \E withErr \in BOOLEAN :
         /\ appChan' = offer(appChan, IF withErr THEN "error" ELSE "complete")
         /\ gpc' = IF withErr THEN "send" ELSE "close"
    /\ UNCHANGED <<launchStatusChan, launchCtxDone, cpc, sent>>
    /\ UNCHANGED <<dlvars, progvars, launchvars, call, ret, Accounts, ActiveID>>

\* startLaunch, lines 483 and 489: the goroutine reads the channel from the
\* Model's field when it sends and when it closes.
channelOf == launchStatusChan

\* startLaunch, lines 482-488: the blocking send of the final Error status;
\* a send on a nil channel blocks for ever.
GoSendFinal ==
    /\ gpc = "send"
    /\ IF channelOf = "nil"
       THEN gpc' = "blockedNil" /\ UNCHANGED appChan
       ELSE IF Len(appChan.buf) < AppChanCap
       THEN gpc' = "close" /\ appChan' = [appChan EXCEPT !.buf = Append(@, "final")]
       ELSE gpc' = "blockedFull" /\ UNCHANGED appChan
    /\ UNCHANGED <<launchStatusChan, launchCtxDone, cpc, sent>>
    /\ UNCHANGED <<dlvars, progvars, launchvars, call, ret, Accounts, ActiveID>>

\* The blocked send goes through once the buffer has room.
GoSendUnblock ==
    /\ gpc = "blockedFull"
    /\ Len(appChan.buf) < AppChanCap
    /\ gpc' = "close"
    /\ appChan' = [appChan EXCEPT !.buf = Append(@, "final")]
    /\ UNCHANGED <<launchStatusChan, launchCtxDone, cpc, sent>>
    /\ UNCHANGED <<dlvars, progvars, launchvars, call, ret, Accounts, ActiveID>>

\* startLaunch, line 489: close of the channel; close of a nil channel
\* panics.
GoClose ==
    /\ gpc = "close"
    /\ IF channelOf = "nil"
       THEN gpc' = "panicked" /\ UNCHANGED appChan
       ELSE gpc' = "done" /\ appChan' = [appChan EXCEPT !.closes = @ + 1]
    /\ UNCHANGED <<launchStatusChan, launchCtxDone, cpc, sent>>
    /\ UNCHANGED <<dlvars, progvars, launchvars, call, ret, Accounts, ActiveID>>

\* Update on LaunchComplete, lines 368-380: the Model forgets the channel
\* and no command is issued for it.
launchCompleteMsg ==
    /\ launchStatusChan' = "nil"
    /\ cpc' = "none"

\* waitForLaunchStatus, lines 500-502: the command reads the Model's field;
\* nil yields LaunchComplete, otherwise it receives from that channel.
CmdRead ==
    /\ cpc = "start"
    /\ IF launchStatusChan = "nil"
       THEN launchCompleteMsg
       ELSE cpc' = "recv" /\ UNCHANGED launchStatusChan
    /\ UNCHANGED <<appChan, launchCtxDone, gpc, sent>>
    /\ UNCHANGED <<dlvars, progvars, launchvars, call, ret, Accounts, ActiveID>>

\* waitForLaunchStatus, lines 504-518, and Update, lines 346-352: a closed
\* and drained channel, an error and a Complete status yield LaunchComplete;
\* any other status is shown and the next command is issued.
CmdReceive ==
    /\ cpc = "recv"
    /\ IF appChan.buf # <<>>
       THEN /\ appChan' = [appChan EXCEPT !.buf = Tail(@)]
            /\ IF Head(appChan.buf) = "update"
               THEN cpc' = "start" /\ UNCHANGED launchStatusChan
               ELSE launchCompleteMsg
       ELSE /\ appChan.closes > 0
            /\ launchCompleteMsg
            /\ UNCHANGED appChan
    /\ UNCHANGED <<launchCtxDone, gpc, sent>>
    /\ UNCHANGED <<dlvars, progvars, launchvars, call, ret, Accounts, ActiveID>>

\* Update on CancelLaunch, lines 355-365: the user pressed ESC on the launch
\* screen; the context is cancelled and the Model forgets the channel.
CancelLaunch ==
    /\ gpc # "off"
    /\ ~launchCtxDone
    /\ launchCtxDone' = TRUE
    /\ launchStatusChan' = "nil"
    /\ UNCHANGED <<appChan, gpc, cpc, sent>>
    /\ UNCHANGED <<dlvars, progvars, launchvars, call, ret, Accounts, ActiveID>>

InitApp ==
    /\ ctxDone = FALSE
    /\ fs = <<>>
    /\ fs0 = <<>>
    /\ items = <<>>
    /\ workerCount = 1
    /\ dlpc = "idle"
    /\ result = NoResult
    /\ workChan = <<>>
    /\ wk = [w \in 1..1 |-> Idle]
    /\ completed = 0
    /\ failed = 0
    /\ errors = <<>>
    /\ downloadedBytes = 0
    /\ attempts = <<>>
    /\ requests = <<>>
    /\ mismatch = {}
    /\ NoProgress
    /\ NoLaunch
    /\ NoUnit

\* The steps of the goroutine and of the commands; the user's are apart.
GoStep ==
    \/ LaunchSend
    \/ LaunchReturn
    \/ GoSendFinal
    \/ GoSendUnblock
    \/ GoClose

CmdStep ==
    \/ CmdRead
    \/ CmdReceive

NextApp ==
    \/ StartLaunch
    \/ GoStep
    \/ CmdStep
    \/ CancelLaunch

\* Launch returns (it ends also when nobody receives), the goroutine and the
\* commands take the steps they can take; the user need not do anything.
SpecApp ==
    InitApp /\ [][NextApp]_vars /\ WF_vars(StartLaunch) /\ WF_vars(GoStep) /\ WF_vars(CmdStep)

----------------------------------------------------------------------------
(* Properties of Download.                                                 *)

ItemIdx == 1..Len(items)

\* The item's URL appears in Download's errors.
inErrors(i) == \E k \in 1..Len(errors) : errors[k].URL = items[i].URL

\* The destination of item i held the declared hash when Download was called.
validBefore(i) ==
    /\ items[i].SHA1 # NoSHA
    /\ fileAt(fs0, items[i].Path) # NoFile
    /\ sha1Hex(fileAt(fs0, items[i].Path)) = items[i].SHA1

\* C3 as claimed: when Download has returned, every item whose received
\* content hashed differently from its declared SHA1 is counted as failed and
\* no file exists at its destination, whatever was there before.
C3_MismatchLeavesNoFile ==
    dlpc = "returned" =>
        \A i \in mismatch :
            /\ inErrors(i)
            /\ result.Failed >= Cardinality(mismatch)
            /\ ~exists(items[i].Path)

\* C5: when the context was never cancelled, Download attempts every item
\* exactly once and Completed + Failed = len(items), for every worker count
\* and interleaving; no item is ever attempted twice.
C5_AllItemsAttemptedOnce ==
    /\ \A i \in DOMAIN attempts : attempts[i] <= 1
    /\ (dlpc = "returned" /\ ~ctxDone) =>
          /\ \A i \in ItemIdx : attempts[i] = 1
          /\ result.Completed + result.Failed = Len(items)

C5_Witness ==
    /\ dlpc = "returned"
    /\ ~ctxDone
    /\ Len(items) = MaxItems
    /\ workerCount >= 2
    /\ result.Completed >= 1
    /\ result.Failed >= 1

\* C6: an item with a declared SHA1 whose destination already holds exactly
\* that hash is never requested over HTTP, its file is left unchanged, and
\* once attempted it is counted as completed, not as failed.
C6_SkipsExistingValid ==
    \A i \in DOMAIN attempts :
        validBefore(i) =>
            /\ requests[i] = 0
            /\ fileAt(fs, items[i].Path) = fileAt(fs0, items[i].Path)
            /\ ~inErrors(i)
            /\ dlpc = "returned" =>
                  result.Completed >=
                      Cardinality({j \in ItemIdx : validBefore(j) /\ attempts[j] = 1})

C6_Witness ==
    /\ dlpc = "returned"
    /\ \E i \in ItemIdx : validBefore(i) /\ attempts[i] = 1
    /\ \E i \in ItemIdx : ~validBefore(i) /\ requests[i] = 1
    /\ result.Completed >= 1

\* Worker w has received the whole response body for item i, the temporary
\* file holds it, and it hashes to the declared SHA1 when one is declared.
verifiedBy(w, i) ==
    /\ wk[w].item = i
    /\ wk[w].pc = "stream"
    /\ wk[w].rest = <<>>
    /\ fileAt(fs, tmpPath(items[i].Path)) = wk[w].got
    /\ items[i].SHA1 # NoSHA => sha1Hex(wk[w].got) = items[i].SHA1

C12_BatchPathsDistinct ==
    \A i, j \in ItemIdx : items[i].Path = items[j].Path => i = j

\* The ways to pair each entry of errs with an item of its own.
pairings(errs) ==
    {f \in [1..Len(errs) -> ItemIdx] : \A a, b \in 1..Len(errs) : f[a] = f[b] => a = b}

\* C13: when Download has returned, Result.Errors has Result.Failed entries,
\* and the entries can be paired with distinct items that a worker took and
\* that are not among the completed ones, each entry carrying its item's URL.
C13_ErrorsMatchFailedItems ==
    dlpc = "returned" =>
        /\ Len(result.Errors) = result.Failed
        /\ result.Completed + result.Failed = Cardinality({i \in ItemIdx : attempts[i] > 0})
        /\ \E f \in pairings(result.Errors) :
              \A k \in 1..Len(result.Errors) :
                  /\ result.Errors[k].URL = items[f[k]].URL
                  /\ attempts[f[k]] = 1

\* Two workers failed their items and the second item's error came first.
C13_Witness ==
    /\ dlpc = "returned"
    /\ lpc = "none"
    /\ Len(items) = 2
    /\ result.Failed = 2
    /\ Len(result.Errors) = 2
    /\ items[1].URL # items[2].URL
    /\ result.Errors[1].URL = items[2].URL
    /\ result.Errors[2].URL = items[1].URL

\* The error text that states a number of failed items and nothing else.
countError(n) == ToString(n) \o " items failed to download"

\* The error text e names none of the batch's items.
noItemDetail(e) ==
    \A i \in ItemIdx : ~Contains(e, items[i].URL) /\ ~Contains(e, items[i].Path)

\* What C14 says of performDownload: Download's own error is nil, and the
\* step returns nil when no item of the batch failed, and otherwise one
\* error that states the number of failed items without naming any item.
performDownloadSummarises ==
    /\ result' # NoResult => ~result'.err
    /\ (lpc = "performDownload" /\ lpc' # lpc) =>
          /\ Len(stepRes') = Len(stepRes) + 1
          /\ IF result.Failed > 0
             THEN /\ stepRes'[Len(stepRes')] = countError(result.Failed)
                  /\ noItemDetail(stepRes'[Len(stepRes')])
             ELSE stepRes'[Len(stepRes')] = NoErr

\* The fetch of the asset index is a batch of one item given to Download: as
\* claimed, its failure too makes the step return the count of failed items.
indexFetchSummarised ==
    (lpc = "readIndex" /\ calls.indexFetch = "failed" /\ Len(stepRes') > Len(stepRes)) =>
        stepRes'[Len(stepRes')] = countError(1)

\* C14 as claimed: whenever an item of a batch that a download step gave to
\* Download failed, the step returns one error stating the number of failed
\* items.
C14_EveryFailedBatchCounted ==
    [][performDownloadSummarises /\ indexFetchSummarised]_vars

\* C14, amended: Download returns a nil error; a batch that performDownload
\* gave to Download makes the step return nil when no item failed and
\* otherwise one error stating the number of failed items and naming no
\* item. (A failed fetch of the asset index surfaces as the error of reading
\* the index file.)
C14_PerformDownloadCountsFailures ==
    [][performDownloadSummarises]_vars

\* A library batch with failed items has made Launch return the count.
C14_Witness ==
    /\ lpc = "returned"
    /\ calls.libsFailed > 0
    /\ Len(stepRes) = 2
    /\ stepRes[2] = countError(calls.libsFailed)
    /\ retval.wraps = countError(calls.libsFailed)

----------------------------------------------------------------------------
(* Properties of Launch.                                                   *)

Last(seq) == seq[Len(seq)]

\* Every step that has returned so far returned nil.
allNil == \A k \in 1..Len(stepRes) : stepRes[k] = NoErr

\* All five steps have returned nil.
allFiveNil == Len(stepRes) = Len(StepNames) /\ allNil

\* The message of the returned error begins with "<name>: ".
errNames(name) ==
    /\ retval # NoResult
    /\ Len(retval.err) >= Len(name) + 2
    /\ SubSeq(retval.err, 1, Len(name) + 2) = name \o ": "

\* C1: the steps of Launch start strictly in the order Checking Java,
\* Downloading libraries, Downloading assets, Preparing game, Launching; a
\* step starts only after every earlier step has returned nil, and once a
\* step has returned an error no later step is started.
C1_StepsInOrder ==
    /\ Len(stepLog) <= Len(StepNames)
    /\ stepLog = SubSeq(StepNames, 1, Len(stepLog))
    /\ Len(stepRes) \in {Len(stepLog) - 1, Len(stepLog)}
    /\ \A k \in 1..Len(stepRes) : k < Len(stepLog) => stepRes[k] = NoErr
    /\ (stepRes # <<>> /\ Last(stepRes) # NoErr) =>
          /\ Len(stepLog) = Len(stepRes)
          /\ lpc = "returned"

C1_Witness ==
    /\ lpc = "returned"
    /\ Len(stepLog) = 3
    /\ stepRes[1] = NoErr
    /\ stepRes[2] = NoErr
    /\ stepRes[3] # NoErr
    /\ calls.Download >= 2

\* C2: IsFullyDownloaded and CachedAt differ from their values at the start
\* of the run only once all five steps have returned nil; a run that
\* returns an error leaves both as they were.
C2_CachedStateOnlyOnSuccess ==
    /\ (inst.IsFullyDownloaded # inst0.IsFullyDownloaded \/ inst.CachedAt # inst0.CachedAt) =>
          /\ allFiveNil
          /\ lpc = "returned"
          /\ retval.err = NoErr
    /\ (lpc = "returned" /\ retval.err # NoErr) =>
          /\ inst.IsFullyDownloaded = inst0.IsFullyDownloaded
          /\ inst.CachedAt = inst0.CachedAt

\* A game that exits with a non-zero status, after a run that committed a
\* discovered runtime through the callback.
C2_Witness ==
    /\ lpc = "returned"
    /\ retval.err # NoErr
    /\ Len(stepRes) = Len(StepNames)
    /\ opts.UpdateInstance
    /\ calls.UpdateInstance = 1
    /\ inst.JavaPath # inst0.JavaPath
    /\ inst.CachedAt = inst0.CachedAt

\* C4 as claimed: on a launch with a status channel the values the channel
\* accepts end with exactly one terminal value: none is accepted after a
\* terminal one, and when Launch has returned exactly one terminal value
\* has been accepted, also when the channel was full at that moment.
C4_OneTerminalStatusLast ==
    (lpc # "none" /\ opts.hasChan) =>
        /\ ~chanLog.late
        /\ chanLog.terminals <= 1
        /\ lpc = "returned" => chanLog.terminals = 1

\* C7: when the instance's flag is true at the start, the library and asset
\* steps build no item list, do not read the asset index and do not call
\* the download manager; each returns nil unless the context is cancelled.
C7_CachedSkipsDownloads ==
    (lpc # "none" /\ inst0.IsFullyDownloaded) =>
        /\ calls.built = 0
        /\ calls.indexReads = 0
        /\ calls.Download = 0
        /\ \A k \in {2, 3} : (Len(stepRes) >= k /\ stepRes[k] # NoErr) => ctxDone

\* Both steps were skipped although nothing is on disk.
C7_Witness ==
    /\ inst0.IsFullyDownloaded
    /\ ~opts.VersionInfo.nil
    /\ ~exists(indexPath(opts.VersionInfo))
    /\ fs = <<>>
    /\ Len(stepRes) >= 3
    /\ stepRes[2] = NoErr
    /\ stepRes[3] = NoErr

\* C8: on a launch with the flag false and a runtime override, when a
\* library item failed to download the returned error names "Downloading
\* libraries"; when the library step returned nil and the fetch of the
\* locally absent asset index failed, it names "Downloading assets"; in
\* both cases Preparing game and Launching are never started.
C8_DownloadFailureNamesStep ==
    (lpc = "returned" /\ ~inst0.IsFullyDownloaded) =>
        /\ calls.libsFailed > 0 =>
              /\ errNames("Downloading libraries")
              /\ Len(stepLog) = 2
        /\ (Len(stepRes) >= 3 /\ stepRes[2] = NoErr /\ calls.indexFetch = "failed") =>
              /\ errNames("Downloading assets")
              /\ Len(stepLog) = 3

C8_Witness ==
    /\ lpc = "returned"
    /\ ~inst0.IsFullyDownloaded
    /\ calls.Download = 2
    /\ stepRes[2] = NoErr
    /\ calls.indexFetch = "failed"
    /\ ~ctxDone

\* C9: when a step fails with the error e, Launch returns an error that
\* wraps e and reads "<step name>: <e>"; Launch returns nil only when all
\* five steps returned nil.
C9_ErrorWrapsStepAndCause ==
    lpc = "returned" =>
        /\ Last(stepRes) # NoErr =>
              /\ retval.err = StepNames[Len(stepRes)] \o ": " \o Last(stepRes)
              /\ retval.wraps = Last(stepRes)
        /\ retval.err = NoErr <=> allFiveNil

C9_Witness ==
    /\ lpc = "returned"
    /\ retval.err = "Launching: game exited with error: exit status 1"

\* The marking of the instance at the end of a run in which all steps
\* returned nil.
endsWell == lpc = "loop" /\ step > Len(StepNames) /\ lpc' = "returned"

emitsComplete ==
    \/ chanLog'.terminals = chanLog.terminals + 1
    \/ chanLog'.lost

\* C10 as claimed: whenever all five steps succeed, Launch sets
\* IsFullyDownloaded, stamps CachedAt and invokes UpdateInstance once.
C10_AlwaysMarks ==
    [][endsWell =>
          /\ inst'.IsFullyDownloaded
          /\ inst'.CachedAt = Now
          /\ calls'.UpdateInstance = calls.UpdateInstance + 1]_vars

\* C10, amended: when all five steps succeed and an UpdateInstance callback
\* was supplied, Launch sets IsFullyDownloaded, stamps CachedAt and invokes
\* the callback once, and whether or not the callback fails it emits the
\* Complete status and returns nil; without the callback the instance is
\* left as it is and nothing is invoked.
C10_MarksWhenCallbackGiven ==
    [][endsWell =>
          /\ allFiveNil
          /\ retval'.err = NoErr
          /\ emitsComplete
          /\ IF opts.UpdateInstance
             THEN /\ inst'.IsFullyDownloaded
                  /\ inst'.CachedAt = Now
                  /\ inst'.JavaPath = inst.JavaPath
                  /\ calls'.UpdateInstance = calls.UpdateInstance + 1
             ELSE /\ inst' = inst
                  /\ calls'.UpdateInstance = calls.UpdateInstance]_vars

\* A run that downloaded everything, whose final save failed.
C10_Witness ==
    /\ lpc = "returned"
    /\ retval.err = NoErr
    /\ calls.finalErr
    /\ calls.Download = 3
    /\ ~inst0.IsFullyDownloaded
    /\ inst.IsFullyDownloaded
    /\ inst.CachedAt = Now
    /\ chanLog.terminals = 1


\* Launch has returned from a run in which the Launching step was started.
launchingOver == lpc = "returned" /\ Len(stepLog) = Len(StepNames)

\* IsFullyDownloaded and CachedAt are as they were when Launch was called.
flagUntouched ==
    /\ inst.IsFullyDownloaded = inst0.IsFullyDownloaded
    /\ inst.CachedAt = inst0.CachedAt

\* C15: when the Launching step was run and the child did not start, or
\* exited with a non-zero status (or was killed), Launch returns an error
\* that names 'Launching', sendStatus was never called with a Complete status
\* and the cached-state flag is as before; when the child exited with status
\* zero all five steps returned nil, Complete was emitted and Launch returns
\* nil.
C15_LaunchingFailsOnBadExit ==
    launchingOver =>
        IF proc = "exit status 0"
        THEN /\ allFiveNil
             /\ retval.err = NoErr
             /\ chanLog.complete
        ELSE /\ proc \in {"none", "exit status 1", "signal: killed"}
             /\ stepRes[Len(StepNames)] # NoErr
             /\ errNames("Launching")
             /\ ~chanLog.complete
             /\ flagUntouched

\* The game exited with status 1 in a run that could have marked the
\* instance.
C15_Witness ==
    /\ launchingOver
    /\ proc = "exit status 1"
    /\ opts.UpdateInstance
    /\ ~inst0.IsFullyDownloaded
    /\ ~inst.IsFullyDownloaded
    /\ ~chanLog.complete
    /\ ~ctxDone

\* C16 as claimed: after the game process has exited with a non-zero
\* status, the pipeline still emits the final Complete status and the exit is
\* not a launch failure.
C16_CompleteAfterBadExit ==
    (launchingOver /\ proc = "exit status 1") =>
        /\ chanLog.complete
        /\ retval.err = NoErr


\* C17 as claimed: a child process that has been spawned ends only by
\* exiting on its own, also after the context has been cancelled, and the
\* Launching step waits for that exit.
C17_ChildSurvivesCancel ==
    [][proc = "running" =>
          /\ proc' \in {"running", "exit status 0", "exit status 1"}
          /\ lpc' = "waiting"]_vars


\* C18: the child is spawned only in the Launching step, so a context
\* cancelled during Checking Java, Downloading libraries or Downloading
\* assets is cancelled with no child spawned; from then on no child is ever
\* started, the cached-state flag and its time stamp stay as they are, and
\* Launch does not return nil. A download step entered with the context
\* already cancelled makes Launch return the context's error, also for an
\* instance whose cached-state flag is true.
C18_CancelStopsPipeline ==
    [][/\ Len(stepLog) < Len(StepNames) => proc = "none"
       /\ (ctxDone /\ proc = "none") =>
             /\ proc' = "none"
             /\ inst'.IsFullyDownloaded = inst.IsFullyDownloaded
             /\ inst'.CachedAt = inst.CachedAt
             /\ lpc' = "returned" => retval'.err # NoErr
       /\ (ctxDone /\ lpc \in {"downloadLibraries", "downloadAssets"} /\ lpc' # lpc) =>
             /\ lpc' = "returned"
             /\ retval'.wraps = "context canceled"
             /\ retval'.err = StepNames[step] \o ": context canceled"]_vars

\* The context was cancelled after the library download had been called on
\* an instance that is not cached; Downloading assets returned the
\* context's error.
C18_Witness ==
    /\ lpc = "returned"
    /\ ctxDone
    /\ ~inst0.IsFullyDownloaded
    /\ opts.UpdateInstance
    /\ calls.Download = 1
    /\ Len(stepLog) = 3
    /\ retval.wraps = "context canceled"
    /\ proc = "none"
    /\ ~inst.IsFullyDownloaded


\* C19: with a status channel that is nil, or that nobody reads and that is
\* therefore full after ChanCap values, Launch comes to its end.
C19_LaunchEndsUnread == <>(lpc \in {"returned", "panicked"})

\* All five steps ran and Launch returned nil on a channel that was full
\* throughout: the Complete status was dropped.
C19_Witness ==
    /\ lpc = "returned"
    /\ retval.err = NoErr
    /\ allFiveNil
    /\ opts.hasChan
    /\ Len(statusChan) = ChanCap
    /\ chanLog.lost
    /\ chanLog.terminals = 0
    /\ calls.Download = 3


\* C20: a Download whose progress channel is never read, and is full from
\* the start or after the first tick, returns, and unless the context was
\* cancelled every item has been taken by a worker once.
C20_DownloadEndsUnread ==
    <>(/\ dlpc = "returned"
       /\ ctxDone \/ \A i \in ItemIdx : attempts[i] = 1)

\* The reporter ticked into a full channel: the tick was dropped, and
\* Download returned with every item attempted.
C20_Witness ==
    /\ dlpc = "returned"
    /\ hasSink
    /\ ~ctxDone
    /\ ticks = MaxTicks
    /\ progressChan[CallerSink] = [k \in 1..CallerSinkCap |-> StaleProgress]
    /\ Len(items) = MaxItems
    /\ \A i \in ItemIdx : attempts[i] = 1


----------------------------------------------------------------------------
(* Properties of the functions called on their own.                        *)

\* The call under study was fn and it has returned.
returned(fn) == call # NoCall /\ call.fn = fn /\ ret # NoCall

\* The rule matches the platform goos: it has no OS name, or its OS name is
\* the platform's name in Mojang's terms.
ruleMatches(rule, goos) ==
    \/ ~rule.OS.present
    \/ rule.OS.Name = ""
    \/ rule.OS.Name = (CASE goos = "darwin" -> "osx"
                         [] goos = "linux" -> "linux"
                         [] goos = "windows" -> "windows"
                         [] OTHER -> goos)

\* C21: libraryApplies is true for an empty rule list; for a non-empty list
\* it is true exactly when some rule matches the platform and the last rule
\* that matches has action "allow", and false when no rule matches.
C21_LastMatchingRuleDecides ==
    returned("libraryApplies") =>
        LET rules == call.rules
            matching == {k \in 1..Len(rules) : ruleMatches(rules[k], call.goos)}
        IN ret.value =
             IF rules = <<>> THEN TRUE
             ELSE /\ matching # {}
                  /\ \E k \in matching :
                        /\ \A j \in matching : j <= k
                        /\ rules[k].Action = "allow"

\* [{allow}, {os:current, disallow}] on macOS gave false.
C21_Witness ==
    /\ returned("libraryApplies")
    /\ call.goos = "darwin"
    /\ Len(call.rules) = 2
    /\ call.rules[1] = [Action |-> "allow", OS |-> NoOS]
    /\ call.rules[2] = [Action |-> "disallow", OS |-> [present |-> TRUE, Name |-> "osx"]]
    /\ ret.value = FALSE


\* C22: FindBest(min) returns a 64-bit installation of the smallest major
\* version among those with major >= min; when there is none, a 64-bit
\* installation of the highest major version; never one that is not 64-bit,
\* and nil exactly when no 64-bit installation was found.
C22_FindBestClosest ==
    returned("FindBest") =>
        LET insts == call.installations
            wide == {k \in 1..Len(insts) : insts[k].Is64Bit}
            fit == {k \in wide : insts[k].MajorVersion >= call.minVersion}
            b == ret.value
        IN /\ b = 0 <=> wide = {}
           /\ b # 0 => b \in wide
           /\ fit # {} =>
                 /\ b \in fit
                 /\ \A k \in fit : insts[b].MajorVersion <= insts[k].MajorVersion
           /\ (fit = {} /\ wide # {}) =>
                 \A k \in wide : insts[b].MajorVersion >= insts[k].MajorVersion

\* {11/64-bit, 17/64-bit, 8/32-bit} with a minimum of 11: the 11 is
\* returned, not the newer 17.
C22_Witness ==
    /\ returned("FindBest")
    /\ call.minVersion = 11
    /\ call.installations = <<[MajorVersion |-> 17, Is64Bit |-> TRUE],
                              [MajorVersion |-> 11, Is64Bit |-> TRUE],
                              [MajorVersion |-> 8, Is64Bit |-> FALSE]>>
    /\ ret.value = 2


\* The sources of a runtime that would succeed when checkJava is entered, in
\* the order claimed.
javaAvailable ==
    <<javaPath # "",
      inst.JavaPath # "" /\ opts.env.remembered,
      opts.env.configDir /\ opts.env.managed,
      opts.env.system>>

\* The major version the managed directory is keyed by.
javaMajorWanted ==
    IF ~opts.VersionInfo.nil /\ opts.VersionInfo.JavaMajor > 0
    THEN opts.VersionInfo.JavaMajor ELSE 8

managedJavaWanted == "config/mctui/java/" \o ToString(javaMajorWanted) \o "/bin/java"

\* checkJava's acquisition is under way.
acquiring ==
    lpc \in {"noConfigDir"} \cup {JavaStages[k] : k \in 1..Len(JavaStages)}
              \cup {JavaStages[k] \o "ing" : k \in 1..Len(JavaStages)}

\* C23: checkJava takes the runtime from the first source that succeeds
\* among the override, the remembered path that exists, the managed
\* directory for the required major version and system detection, and turns
\* to acquisition only when all four failed; an acquisition that fails makes
\* the step and Launch fail, one that succeeds yields the managed path.
C23_JavaSourcesInOrder ==
    [][/\ (lpc = "checkJava" /\ lpc' # lpc) =>
             LET first == CHOOSE k \in 1..5 :
                              /\ k <= 4 => javaAvailable[k]
                              /\ \A j \in 1..(k - 1) : ~javaAvailable[j]
             IN /\ first <= 4 => (lpc' = "loop" /\ stepRes' = <<NoErr>>)
                /\ first = 1 => javaPath' = javaPath
                /\ first = 2 => javaPath' = inst.JavaPath
                /\ first = 3 => javaPath' = managedJavaWanted
                /\ first = 4 => javaPath' = SystemJava
                /\ first = 5 <=> acquiring'
       /\ (acquiring /\ ~acquiring') =>
             \/ /\ lpc' = "loop"
                /\ stepRes' = <<NoErr>>
                /\ javaPath' = managedJavaWanted
             \/ /\ lpc' = "returned"
                /\ stepRes'[1] # NoErr
                /\ retval'.err = "Checking Java: " \o stepRes'[1]
                /\ javaPath' = ""]_vars

\* The managed directory and a system installation were both there, the
\* remembered path was gone: the managed runtime was taken.
C23_Witness ==
    /\ Len(stepRes) >= 1
    /\ stepRes[1] = NoErr
    /\ inst0.JavaPath # ""
    /\ ~opts.env.remembered
    /\ opts.env.configDir /\ opts.env.managed /\ opts.env.system
    /\ javaPath = managedJavaWanted


\* C24 as claimed: substitution replaces each placeholder by its value
\* ("--username ${auth_player_name}" with player name Alice gives
\* "--username Alice"), and substituting again in the result, in whatever
\* order, changes nothing, for every token and all replacement values.
C24_SubstitutionIdempotent ==
    returned("replaceVars") =>
        /\ (call.token = "--username ${auth_player_name}" /\ call.options.PlayerName = "Alice")
              => ret.value = "--username Alice"
        /\ \A order \in Orders(MaxVars) :
              replaceVars(ret.value, replacementValues(call.options), order) = ret.value

\* C25 as claimed: every order of processing the replacement map gives the
\* same result, for every token and all replacement values.
C25_SubstitutionOrderIndependent ==
    returned("replaceVars") =>
        \A order \in Orders(MaxVars) :
            replaceVars(call.token, replacementValues(call.options), order) = ret.value


\* The elements of a sequence.
elements(seq) == {seq[k] : k \in 1..Len(seq)}

\* C26: buildArguments yields the JVM arguments of exactly one source (the
\* instance's if it has any, else the configuration's if it has any, else
\* the defaults), then the startup flag on macOS only, then the
\* -Djava.library.path property of the instance's natives directory, then
\* "-cp" and right after it the classpath, then the main class, then the
\* game arguments.
C26_ArgumentOrder ==
    returned("buildArguments") =>
        LET a == ret.value
            src == IF call.instArgs # <<>> THEN "instance"
                   ELSE IF call.cfgArgs # <<>> THEN "config" ELSE "default"
            jvm == CASE src = "instance" -> call.instArgs
                     [] src = "config" -> call.cfgArgs
                     [] OTHER -> <<"-Xmx2G", "-Xms512M">>
            n == Len(jvm)
            f == IF call.goos = "darwin" THEN 1 ELSE 0
            g == Len(call.game)
        IN /\ Len(a) = n + f + 4 + g
           /\ SubSeq(a, 1, n) = jvm
           /\ src # "instance" => elements(call.instArgs) \cap elements(a) = {}
           /\ src # "config" => elements(call.cfgArgs) \cap elements(a) = {}
           /\ src # "default" => {"-Xmx2G", "-Xms512M"} \cap elements(a) = {}
           /\ ("-XstartOnFirstThread" \in elements(a)) <=> (call.goos = "darwin")
           /\ call.goos = "darwin" => a[n + 1] = "-XstartOnFirstThread"
           /\ a[n + f + 1] = "-Djava.library.path=instances/test/natives"
           /\ a[n + f + 2] = "-cp"
           /\ a[n + f + 3] = buildClasspath(call.version, call.goos)
           /\ a[n + f + 4] = "net.minecraft.client.main.Main"
           /\ g = 2 => SubSeq(a, n + f + 5, Len(a)) = <<"--username", "Alice">>

\* Both sources have JVM arguments, on macOS, with game arguments.
C26_Witness ==
    /\ returned("buildArguments")
    /\ call.instArgs # <<>>
    /\ call.cfgArgs # <<>>
    /\ call.goos = "darwin"
    /\ call.game # <<>>
    /\ Len(ret.value) = 8


\* C27 as claimed: the batch that the Downloading libraries step builds
\* always holds an item whose destination is the client binary's path, the
\* path that buildClasspath puts last on the classpath, whatever the
\* version metadata.
C27_ClientAlwaysEnqueued ==
    stepLog = <<"Downloading libraries">> =>
        LET cp == classpathPaths(opts.VersionInfo, GOOS)
        IN /\ cp[Len(cp)] = "libraries/com/mojang/minecraft/1.21.4/minecraft-1.21.4-client.jar"
           /\ \E i \in 1..Len(items) : items[i].Path = cp[Len(cp)]


\* The positions of the dots of s, and the k-th dot-separated component of
\* s (the text up to the first dot when s has one, all of s otherwise).
dots(s) == {i \in 1..Len(s) : SubSeq(s, i, i) = "."}
firstDotFrom(s, i) ==
    IF \E j \in dots(s) : j >= i
    THEN CHOOSE j \in dots(s) : j >= i /\ \A m \in dots(s) : m >= i => j <= m
    ELSE Len(s) + 1
firstComponent(s) == SubSeq(s, 1, firstDotFrom(s, 1) - 1)
secondComponent(s) ==
    SubSeq(s, firstDotFrom(s, 1) + 1, firstDotFrom(s, firstDotFrom(s, 1) + 1) - 1)

\* A decimal integer: an optional sign and at least one digit; and its value.
isInteger(t) ==
    LET body == IF t # "" /\ SubSeq(t, 1, 1) \in {"+", "-"} THEN SubSeq(t, 2, Len(t)) ELSE t
    IN body # "" /\ \A i \in 1..Len(body) : SubSeq(body, i, i) \in
                       {"0", "1", "2", "3", "4", "5", "6", "7", "8", "9"}
RECURSIVE power10(_)
power10(n) == IF n = 0 THEN 1 ELSE 10 * power10(n - 1)
RECURSIVE sumOver(_, _)
sumOver(body, i) ==
    IF i > Len(body) THEN 0
    ELSE (CHOOSE d \in 0..9 : ToString(d) = SubSeq(body, i, i)) * power10(Len(body) - i)
         + sumOver(body, i + 1)
integerValue(t) ==
    IF SubSeq(t, 1, 1) = "-" THEN 0 - sumOver(SubSeq(t, 2, Len(t)), 1)
    ELSE IF SubSeq(t, 1, 1) = "+" THEN sumOver(SubSeq(t, 2, Len(t)), 1)
    ELSE sumOver(t, 1)

----------------------------------------------------------------------------
(* Properties of the AccountManager.                                       *)

stored(id) == \E i \in 1..Len(Accounts) : Accounts[i].ID = id

\* ActiveID is empty with no account stored, or the ID of a stored account.
activeIsStored ==
    \/ ActiveID = "" /\ Accounts = <<>>
    \/ stored(ActiveID)

\* What one call does to ActiveID.
activeStep ==
    /\ (call'.fn = "Add" /\ Accounts = <<>>) => ActiveID' = call'.acc.ID
    /\ (call'.fn = "Add" /\ Accounts # <<>>) => ActiveID' = ActiveID
    /\ (call'.fn = "SetActive" /\ stored(call'.id)) =>
          ActiveID' = call'.id /\ ret'.value = ""
    /\ (call'.fn = "SetActive" /\ ~stored(call'.id)) =>
          ActiveID' = ActiveID /\ ret'.value # ""

----------------------------------------------------------------------------
(* Properties of the log readers.                                          *)

\* C30 as claimed: once the Launching step of a run that started the game
\* has returned, both stream readers (stdout and stderr) have reached the
\* end of their stream, so that no log line is left to be sent after the
\* run's terminal status.
C30_ReadersDoneBeforeReturn ==
    (Len(stepRes) = Len(StepNames) /\ proc # "none") =>
        \A s \in Streams : rd[s].pc = "done"


----------------------------------------------------------------------------
(* Properties of the workers under cancellation.                           *)

\* The items that a worker has started.
startedItems == {i \in 1..Len(attempts) : attempts[i] > 0}

\* Items never started are counted nowhere.
countsWithinStarted ==
    dlpc \in {"running", "returned"} =>
        /\ completed + failed <= Cardinality(startedItems)
        /\ completed + failed <= Len(items)
        /\ dlpc = "returned" /\ Len(items) > 0 =>
              result.Completed + result.Failed <= Cardinality(startedItems)

\* A worker that receives an item with the context cancelled exits without
\* starting it, and a worker that has exited stays so.
cancelCheckStep ==
    (dlpc = "running" /\ dlpc' = "running") =>
        \A w \in Workers :
            /\ (ctxDone /\ wk[w].pc = "idle" /\ wk'[w].pc # "idle") =>
                  wk'[w].pc = "exited" /\ attempts' = attempts
            /\ wk[w].pc = "exited" => wk'[w].pc = "exited"

\* C31: a worker checks for cancellation before each item; one that sees
\* the context cancelled there starts no further item and exits; items never
\* started are counted neither as completed nor as failed, so that
\* Completed + Failed <= len(items); and Download returns after a
\* cancellation.
C31_CancelCheckedBeforeEachItem ==
    /\ []countsWithinStarted
    /\ [][cancelCheckStep]_vars
    /\ (ctxDone ~> dlpc = "returned")

\* Download has returned after a cancellation that left an item unstarted
\* behind a completed one.
C31_Witness ==
    /\ dlpc = "returned"
    /\ ctxDone
    /\ Len(items) = 2
    /\ \E w \in Workers : wk[w].pc = "exited"
    /\ \E i \in 1..Len(items) : attempts[i] = 0
    /\ result.Completed = 1
    /\ result.Failed = 0


----------------------------------------------------------------------------
(* Properties of the persistence callbacks.                                *)

\* UpdateLastPlayed is invoked only in the step of launchGame that starts
\* the child and goes on to wait for it, after four steps that returned nil.
lastPlayedStep ==
    calls'.UpdateLastPlayed # calls.UpdateLastPlayed =>
        /\ calls'.UpdateLastPlayed = calls.UpdateLastPlayed + 1
        /\ opts.UpdateLastPlayed
        /\ lpc = "launchGame"
        /\ stepRes = <<"", "", "", "">>
        /\ proc = "none"
        /\ proc' = "running"
        /\ lpc' = "waiting"

\* C32: UpdateLastPlayed is invoked only after the child process has started
\* and before the pipeline waits for its exit; it is invoked then when the
\* callback is given, and not when the process fails to start or an earlier
\* step fails.
C32_LastPlayedAfterStart ==
    /\ [][lastPlayedStep]_vars
    /\ [](proc = "none" => calls.UpdateLastPlayed = 0)
    /\ []((proc # "none" /\ opts.UpdateLastPlayed) => calls.UpdateLastPlayed = 1)

\* The child is running and the play was recorded; nothing waits yet for
\* more than the child.
C32_Witness ==
    /\ lpc = "waiting"
    /\ proc = "running"
    /\ opts.UpdateLastPlayed
    /\ calls.UpdateLastPlayed = 1

\* A launch whose child did not start has returned without the callback.
C32_NotStarted ==
    /\ lpc = "returned"
    /\ Len(stepRes) = Len(StepNames)
    /\ proc = "none"
    /\ opts.UpdateLastPlayed
    /\ calls.UpdateLastPlayed = 0


\* The Checking Java step returns nil in this step.
checkJavaReturnsNil ==
    /\ stepRes = <<>>
    /\ stepRes' = <<NoErr>>

\* The source checkJava takes the runtime from is one it commits.
fromCommittedSource == javaSource \in {"managed", "system", "acquire"}

\* C33 as claimed: when Checking Java resolves the runtime from the managed
\* directory, from system detection or from acquisition, the path is stored
\* in Instance.JavaPath and UpdateInstance is invoked before the step
\* returns; from the override or the remembered path, Instance.JavaPath is
\* left as it was and the step does not call UpdateInstance.
C33_ResolvedPathPersisted ==
    [][checkJavaReturnsNil =>
          IF fromCommittedSource
          THEN /\ inst'.JavaPath = javaPath'
               /\ calls'.UpdateInstance = calls.UpdateInstance + 1
          ELSE /\ inst'.JavaPath = inst.JavaPath
               /\ calls'.UpdateInstance = calls.UpdateInstance]_vars

\* C33 amended: the above holds for a launch that was given an
\* UpdateInstance callback; without one the resolved path becomes the
\* launch's JavaPath only, the instance is left as it was and nothing is
\* invoked.
C33_PersistedWhenCallbackGiven ==
    [][checkJavaReturnsNil =>
          IF fromCommittedSource /\ opts.UpdateInstance
          THEN /\ inst'.JavaPath = javaPath'
               /\ javaPath' # ""
               /\ calls'.UpdateInstance = calls.UpdateInstance + 1
          ELSE /\ inst' = inst
               /\ calls'.UpdateInstance = calls.UpdateInstance
               /\ javaPath' # ""]_vars

\* A runtime found by system detection was stored on the instance and
\* saved, in place of a remembered path that was gone.
C33_Witness ==
    /\ Len(stepRes) >= 1
    /\ stepRes[1] = NoErr
    /\ opts.UpdateInstance
    /\ ~opts.env.managed /\ opts.env.system
    /\ inst0.JavaPath # SystemJava
    /\ inst.JavaPath = SystemJava
    /\ javaPath = SystemJava
    /\ calls.UpdateInstance >= 1


\* UpdateInstance is invoked once at a time: during Checking Java, for the
\* first time, or in the step that completes the launch.
updateInstanceStep ==
    calls'.UpdateInstance # calls.UpdateInstance =>
        /\ calls'.UpdateInstance = calls.UpdateInstance + 1
        /\ \/ /\ stepRes = <<>>
              /\ calls.UpdateInstance = 0
              /\ stepRes' = <<NoErr>>
           \/ /\ Len(stepRes) = Len(StepNames)
              /\ lpc' = "returned"
              /\ retval'.err = NoErr

\* C34: in one run of Launch UpdateInstance is invoked at most twice, at
\* most once during Checking Java and at most once at final completion, and
\* UpdateLastPlayed at most once.
C34_CallbackCounts ==
    /\ [](calls.UpdateInstance <= 2 /\ calls.UpdateLastPlayed <= 1)
    /\ [](lpc # "returned" => calls.UpdateInstance <= 1)
    /\ [][updateInstanceStep]_vars

\* A launch that committed a discovered runtime, recorded the play and
\* marked the instance at the end.
C34_Witness ==
    /\ lpc = "returned"
    /\ retval.err = NoErr
    /\ calls.UpdateInstance = 2
    /\ calls.UpdateLastPlayed = 1


----------------------------------------------------------------------------
(* Properties of the progress fraction.                                    *)

\* The fraction <<numerator, denominator>> lies within [0,1].
withinUnit(fraction) ==
    /\ fraction[2] > 0
    /\ 0 <= fraction[1]
    /\ fraction[1] <= fraction[2]

\* C35 as claimed: every Status of a Launch run that the status channel
\* holds has its Progress within [0,1], also the progress statuses forwarded
\* during the download steps, whatever sizes the items declare and however
\* many bytes are received.
C35_ProgressWithinUnit ==
    lpc # "none" =>
        \A k \in 1..Len(statusChan) : withinUnit(statusChan[k].Progress)


----------------------------------------------------------------------------
(* Properties of a download step's outcome.                                *)

\* C36 as claimed: performDownload returns nil only if every item of its
\* batch was completed (a worker started it and it was counted as
\* completed), under every interleaving of the workers and of a
\* cancellation.
C36_SuccessMeansAllCompleted ==
    [][(lpc = "performDownload" /\ lpc' # lpc /\ stepRes' = Append(stepRes, NoErr)) =>
          /\ result.Completed = Len(items)
          /\ \A i \in 1..Len(items) : attempts[i] > 0]_vars


----------------------------------------------------------------------------
(* Properties of the progress reporter.                                    *)

\* A value is put into a progress channel only while Download runs and the
\* channel is open.
reporterSendStep ==
    \A n \in DOMAIN progressChan :
        (n \in DOMAIN progressChan' /\ Len(progressChan'[n]) > Len(progressChan[n])) =>
            /\ dlpc = "running"
            /\ n \in DOMAIN progressClosed => ~progressClosed[n]

\* C37: the reporter never sends on the progress sink after Download has
\* returned: Download returns only after the reporter has terminated, so
\* that performDownload can close the sink right after, under every
\* interleaving, cancellation included.
C37_ReporterSilentAfterReturn ==
    /\ [][reporterSendStep]_vars
    /\ []((dlpc = "returned" /\ hasSink) => rpc = "done")
    /\ []((rpc = "run" /\ currentSink \in DOMAIN progressClosed) =>
             ~progressClosed[currentSink])

\* The reporter offered a snapshot during a download step whose sink has
\* since been closed.
C37_Witness ==
    /\ lpc # "none"
    /\ ticks > 0
    /\ progressClosed["Downloading libraries"]
    /\ ctxDone


----------------------------------------------------------------------------
(* Properties of the temporary files.                                      *)

\* A worker is copying item i into its temporary file.
copying(i) == \E w \in Workers : wk[w].pc = "stream" /\ wk[w].item = i

\* C38: with pairwise distinct destinations, once Download has returned no
\* file <destination>.tmp is left for any item: a failure after the file was
\* created removes it, a success renames it away; while Download runs, only
\* an item being copied has one.
C38_NoTemporaryFileLeft ==
    dlpc \in {"running", "returned"} =>
        \A i \in 1..Len(items) :
            fileAt(fs, tmpPath(items[i].Path)) # NoFile =>
                dlpc = "running" /\ copying(i)

\* Download has returned after an item failed in the middle of its transfer,
\* with the context cancelled.
C38_Witness ==
    /\ dlpc = "returned"
    /\ lpc = "none"
    /\ ctxDone
    /\ Len(items) = 1
    /\ downloadedBytes = 1
    /\ result.Failed = 1
    /\ mismatch = {}


----------------------------------------------------------------------------
(* Properties of the application's launch goroutine.                       *)

\* C39 as claimed: the goroutine that runs a launch always terminates and
\* closes the status channel it made exactly once, whatever the UI does
\* meanwhile, also when the user cancels the launch or the buffer is full
\* when the final error status is sent.
C39_GoroutineClosesOnce ==
    /\ [](gpc # "panicked" /\ appChan.closes <= 1)
    /\ (gpc = "launch" ~> (gpc = "done" /\ appChan.closes = 1))


----------------------------------------------------------------------------
(* Properties of the runtime archive extraction.                           *)

\* A path lies under a directory: it is the directory or continues it after
\* a separator.
liesUnder(path, dir) == path = dir \/ HasPrefix(path, dir \o "/")

\* C40 as claimed: for every entry name of a tar.gz or zip archive, after
\* the top-level directory is stripped, the target path of every file,
\* directory or symlink that is created lies under the destination
\* directory, also for names with ".." components.
C40_ExtractionInsideDest ==
    (call # NoCall /\ call.fn = "extractArchive" /\ ret # NoCall /\ ret.value.created)
        => liesUnder(ret.value.target, DestDir)

====
